---- MODULE Spec2Model ----
(***************************************************************************)
(* The submission lifecycle of the TEM review bot: state.py's handlers     *)
(* over the tables of db.py, driven by the chat handlers of                *)
(* telegram_handlers.py and the timer jobs of scheduler.py.                *)
(*                                                                         *)
(* Every handler is one action.  The tables are sequences in rowid order.  *)
(* Outbound effects of the last handler (oracle calls, emails, chat posts) *)
(* are recorded in `last`, and what the caller of a command typed in        *)
(* `args`; neither is program state.                                       *)
(*                                                                         *)
(* In the specifications up to SpecPublish a handler runs from its first   *)
(* statement to its return in one step.  SpecAsync runs the handlers that  *)
(* are suspended at an await with writes still to come, and the follow-up  *)
(* job, one stretch between awaits at a time; `handler` and `job` hold     *)
(* what such a coroutine keeps in its local variables.                     *)
(***************************************************************************)
EXTENDS Integers, Sequences, FiniteSets, TLC

VARIABLES
    submissions,         \* table submissions, index = id
    assignments,         \* table assignments, in id order (rows can be deleted)
    assignment_history,  \* table assignment_history, append-only
    followups,           \* table followups, index = id
    rejections,          \* table rejections, index = id
    buttons,             \* inline buttons posted to the group chat so far
    operator_user_id,    \* config["telegram"]["operator_user_id"], 0: not configured
    publish_time,        \* config["workflow"]["publish_time"], as characters
    now,                 \* the clock, in days since 1970-01-01
    args,                \* context.args of the command being handled, joined
    handler,             \* the chat update dispatched last and where its handler is
    job,                 \* the pass of the follow-up job that is under way
    bot_state,           \* table bot_state: the value under last_gmail_checked_ts
    mailbox,             \* the messages in the Gmail mailbox
    poll,                \* the pass of the poll job that is under way
    last                 \* what the last handler did and emitted

vars == <<submissions, assignments, assignment_history, followups,
          rejections, buttons, operator_user_id, publish_time, now, args,
          handler, job, bot_state, mailbox, poll, last>>

\* what cfg.load() returns: the handlers read it and never write it
config == <<operator_user_id, publish_time>>

\* what the poll job reads and writes besides the tables of the lifecycle
mail == <<bot_state, mailbox, poll>>

----------------------------------------------------------------------------
(* Bounds *)

MaxSubs == 1          \* distinct inbound messages
MoreSubs == 2         \* the same, where two submissions are explored
MaxRows == 2          \* assignment rows ever inserted
MaxFollowups == 2     \* followup rows ever inserted
MaxRejections == 2    \* rejection proposals ever inserted
MaxTime == 1          \* days the clock moves on
MaxOverride == 1      \* reviewers listed in one override command
MoreOverride == 2     \* the same, where the override command is explored
MoreRows == 3         \* assignment rows, where the override command is explored
MoreFollowups == 3    \* followup rows, where two submissions are explored
LastDate == 13        \* the latest date of the first poll, where dates are explored
FewRows == 1          \* assignment rows, where the rejection protocol is explored
FewFollowups == 1     \* followup rows, where the rejection protocol is explored
FewRejections == 1    \* proposals, where the assignment protocol is explored

(* config["workflow"]["followup_interval_days"] *)
FollowupIntervalDays == 1

----------------------------------------------------------------------------
(* Identities *)

\* Telegram usernames of the chat members.
Users == {"alice", "bob", "carol"}

\* user.id of a chat member
UserId(user) ==
    CASE user = "alice" -> 101
      [] user = "bob" -> 102
      [] user = "carol" -> 103

\* the chat member with a user id
UserOf(tg_id) == CHOOSE user \in Users : UserId(user) = tg_id

\* The operator ids a deployment may configure: none, or carol's.
OperatorIds == {0, UserId("carol")}

\* Reviewer names as the oracle may spell them (reviewer1 / reviewer2).
OracleNames == {"", "alice", "Alice", " bob", "carol"}

\* Reviewer names an operator may type after /override.
OverrideNames == {"alice", "Alice", "bob", "carol"}

Reasons == {"off-topic", "spam"}

\* str.strip()
Strip(s) ==
    CASE s = " bob" -> "bob"
      [] OTHER -> s

\* str.lower(), and SQL lower(), of a name or of one character
Lower(s) ==
    CASE s = "Alice" -> "alice"
      [] s = "Z" -> "z"
      [] s = "K" -> "k"
      [] OTHER -> s

GmailIds == 1..MaxSubs

\* email_data["title"] of an inbound message, as characters
Title(gmail_message_id) ==
    CASE gmail_message_id = 1 -> <<"Z", "k", "1">>
      [] gmail_message_id = 2 -> <<"z", "k", "2">>

\* What a chat member may type after /done, /reject or /second: a word that
\* is in both titles, one for each title, a quoted word, one with the LIKE
\* wildcard, and a word that is in neither.
Keywords == {<<"z", "K">>, <<"1">>, <<"2">>, <<"\"", "1", "\"">>,
             <<"_", "2">>, <<"x">>}

\* The keyword of the only submission, where one submission is explored.
OneKeyword == {<<"1">>}

----------------------------------------------------------------------------
(* Sequence helpers *)

RECURSIVE SeqToSet(_)
SeqToSet(s) == IF s = <<>> THEN {} ELSE {Head(s)} \cup SeqToSet(Tail(s))

Max(S) == CHOOSE x \in S : \A y \in S : y <= x

\* The elements of a finite set of integers in increasing order.
RECURSIVE Sorted(_)
Sorted(S) ==
    IF S = {} THEN <<>>
    ELSE LET m == CHOOSE x \in S : \A y \in S : x <= y
         IN  <<m>> \o Sorted(S \ {m})

----------------------------------------------------------------------------
(* state.py: compute_publish_date *)

\* date.weekday(): 0 for Monday .. 6 for Sunday; 1970-01-01 was a Thursday
weekday(date) == (date + 3) % 7

Digit(c) ==
    CASE c = "0" -> 0 [] c = "1" -> 1 [] c = "2" -> 2 [] c = "3" -> 3
      [] c = "4" -> 4 [] c = "5" -> 5 [] c = "6" -> 6 [] c = "7" -> 7
      [] c = "8" -> 8 [] c = "9" -> 9

\* int(s), for a string of decimal digits
RECURSIVE int(_)
int(s) ==
    IF s = <<>> THEN 0
    ELSE 10 * int(SubSeq(s, 1, Len(s) - 1)) + Digit(s[Len(s)])

\* s.split(sep)
RECURSIVE split(_, _)
split(s, sep) ==
    IF \A i \in DOMAIN s : s[i] # sep THEN <<s>>
    ELSE LET i == CHOOSE k \in DOMAIN s :
                      s[k] = sep /\ \A j \in 1..(k - 1) : s[j] # sep
         IN  <<SubSeq(s, 1, i - 1)>> \o split(SubSeq(s, i + 1, Len(s)), sep)

\* Mutant: the candidate day is taken as it is.
skip_weekend_Never(candidate) == candidate

\* while candidate.weekday() >= 5: candidate += timedelta(days=1)
RECURSIVE skip_weekend(_)
skip_weekend(candidate) ==
    IF weekday(candidate) >= 5 THEN skip_weekend(candidate + 1) ELSE candidate

\* `today` is datetime.now(tz).date(); replace() overwrites the time of day
compute_publish_date(today, publish_time_str) ==
    LET candidate == skip_weekend(today + 1)
        hour == int(split(publish_time_str, ":")[1])
        minute == int(split(publish_time_str, ":")[2])
    IN  [day |-> candidate, hour |-> hour, minute |-> minute]

\* no publish slot: publish_date is NULL
NoSlot == [day |-> 0, hour |-> 0, minute |-> 0]

----------------------------------------------------------------------------
(* db.py: queries and updates, as functions of the tables *)

NoRow == [id |-> 0, submission_id |-> 0, reviewer_tg_username |-> "",
          status |-> "none"]

SubIds == DOMAIN submissions

\* Mutant: the lookup never finds the stored message.
get_submission_by_gmail_id_Miss(subs, gmail_message_id) == 0

\* SELECT * FROM submissions WHERE gmail_message_id = ?  (0: no such row)
get_submission_by_gmail_id(subs, gmail_message_id) ==
    LET hit == {i \in DOMAIN subs : subs[i].gmail_message_id = gmail_message_id}
    IN  IF hit = {} THEN 0 ELSE CHOOSE i \in hit : TRUE

\* INSERT INTO submissions: status defaults to 'pending_assignment'.
insert_submission(subs, gmail_message_id, title) ==
    Append(subs, [gmail_message_id |-> gmail_message_id, title |-> title,
                  status |-> "pending_assignment", publish_date |-> NoSlot.day])

\* s.strip(chars)
RECURSIVE strip(_, _)
strip(s, chars) ==
    IF s = <<>> THEN s
    ELSE IF Head(s) \in chars THEN strip(Tail(s), chars)
    ELSE IF s[Len(s)] \in chars THEN strip(SubSeq(s, 1, Len(s) - 1), chars)
    ELSE s

Whitespace == {" "}

\* text LIKE pattern: % is any run of characters, _ any one character, and
\* letters match whatever their case
RECURSIVE like(_, _)
like(text, pattern) ==
    IF pattern = <<>> THEN text = <<>>
    ELSE IF Head(pattern) = "%"
    THEN \/ like(text, Tail(pattern))
         \/ text # <<>> /\ like(Tail(text), pattern)
    ELSE /\ text # <<>>
         /\ Head(pattern) = "_" \/ Lower(Head(pattern)) = Lower(Head(text))
         /\ like(Tail(text), Tail(pattern))

\* SQL lower() of a text
lower(text) == [k \in DOMAIN text |-> Lower(text[k])]

\* the pairs with lower(title) LIKE lower('%keyword%'), of the titles and
\* the keywords that reach the query
TitleMatches ==
    UNION {IF like(lower(title), lower(<<"%">> \o keyword \o <<"%">>))
           THEN {<<title, keyword>>} ELSE {} :
               title \in {Title(g) : g \in 1..MoreSubs},
               keyword \in Keywords \cup
                   {strip(strip(k, {"\""}), {"'"}) : k \in Keywords}}

\* SELECT * FROM submissions WHERE lower(title) LIKE lower(?)
\* AND status NOT IN ('accepted', 'rejected'), with '%keyword%': the ids
\* found, in id order
get_submission_by_title_keyword(subs, keyword) ==
    Sorted({i \in DOMAIN subs :
               /\ <<subs[i].title, keyword>> \in TitleMatches
               /\ subs[i].status \notin {"accepted", "rejected"}})

update_submission_status(subs, sub_id, status) ==
    [subs EXCEPT ![sub_id].status = status]

\* UPDATE submissions SET status = 'accepted', publish_date = ? WHERE id = ?
set_submission_accepted(subs, sub_id, publish_date) ==
    [subs EXCEPT ![sub_id].status = "accepted", ![sub_id].publish_date = publish_date]

set_submission_rejected(subs, sub_id) ==
    [subs EXCEPT ![sub_id].status = "rejected"]

\* SELECT * FROM assignments WHERE submission_id = ?
get_assignments_for_submission(rows, sub_id) ==
    SelectSeq(rows, LAMBDA a : a.submission_id = sub_id)

\* ... WHERE submission_id = ? AND reviewer_tg_username = ? ORDER BY id DESC LIMIT 1
get_assignment(rows, sub_id, username) ==
    LET hit == {i \in DOMAIN rows : /\ rows[i].submission_id = sub_id
                                    /\ rows[i].reviewer_tg_username = username}
    IN  IF hit = {} THEN NoRow ELSE rows[Max(hit)]

get_confirmed_reviewers(rows, sub_id) ==
    SelectSeq(rows, LAMBDA a : a.submission_id = sub_id /\ a.status = "confirmed")

\* Mutant: the reviewer's rows of every submission are updated.
update_assignment_status_AnySubmission(rows, sub_id, username, status) ==
    [i \in DOMAIN rows |->
        IF rows[i].reviewer_tg_username = username
        THEN [rows[i] EXCEPT !.status = status]
        ELSE rows[i]]

\* UPDATE assignments SET status = ? WHERE submission_id = ? AND reviewer_tg_username = ?
update_assignment_status(rows, sub_id, username, status) ==
    [i \in DOMAIN rows |->
        IF rows[i].submission_id = sub_id /\ rows[i].reviewer_tg_username = username
        THEN [rows[i] EXCEPT !.status = status]
        ELSE rows[i]]

\* UPDATE assignments SET status = 'done' WHERE submission_id = ? AND reviewer_tg_username = ?
mark_assignment_done(rows, sub_id, username) ==
    [i \in DOMAIN rows |->
        IF rows[i].submission_id = sub_id /\ rows[i].reviewer_tg_username = username
        THEN [rows[i] EXCEPT !.status = "done"]
        ELSE rows[i]]

\* Mutant: the pending rows are kept.
clear_pending_assignments_OnlyDeclined(rows, sub_id) ==
    SelectSeq(rows, LAMBDA a : ~(a.submission_id = sub_id /\ a.status = "declined"))

\* Mutant: the declined rows are kept.
clear_pending_assignments_OnlyPending(rows, sub_id) ==
    SelectSeq(rows, LAMBDA a : ~(a.submission_id = sub_id /\ a.status = "pending"))

\* DELETE FROM assignments WHERE submission_id = ? AND status IN ('pending', 'declined')
clear_pending_assignments(rows, sub_id) ==
    SelectSeq(rows, LAMBDA a : ~(a.submission_id = sub_id
                                 /\ a.status \in {"pending", "declined"}))

\* Mutant: no history row is written.
insert_assignment_NoHistory(tables, sub_id, username) ==
    [rows |-> Append(tables.rows,
                     [id |-> Len(tables.rows) + 1, submission_id |-> sub_id,
                      reviewer_tg_username |-> username, status |-> "pending"]),
     hist |-> tables.hist]

\* insert_assignment writes one assignments row and one assignment_history row
\* in the same transaction; both ids are AUTOINCREMENT, so they stay equal.
insert_assignment(tables, sub_id, username) ==
    [rows |-> Append(tables.rows,
                     [id |-> Len(tables.hist) + 1, submission_id |-> sub_id,
                      reviewer_tg_username |-> username, status |-> "pending"]),
     hist |-> Append(tables.hist,
                     [submission_id |-> sub_id, reviewer_tg_username |-> username])]

\* for r in reviewers: db.insert_assignment(sub_id, r)
RECURSIVE insert_assignments(_, _, _)
insert_assignments(tables, sub_id, names) ==
    IF names = <<>> THEN tables
    ELSE insert_assignments(insert_assignment(tables, sub_id, Head(names)),
                            sub_id, Tail(names))

Tables == [rows |-> assignments, hist |-> assignment_history]

\* INSERT INTO followups (submission_id, scheduled_at): sent_at is NULL.
insert_followup(fs, sub_id, scheduled_at) ==
    Append(fs, [submission_id |-> sub_id, scheduled_at |-> scheduled_at,
                sent |-> FALSE])

mark_followup_sent(fs, followup_id) ==
    [fs EXCEPT ![followup_id].sent = TRUE]

\* ids of the unsent followups that are due, for submissions under review
get_pending_followups(fs, subs, t) ==
    {i \in DOMAIN fs : /\ fs[i].scheduled_at <= t
                       /\ ~fs[i].sent
                       /\ subs[fs[i].submission_id].status = "under_review"}

\* keyboard: whether the chat message tg_proposal_message_id points to carries
\* the confirm button; the proposal is posted without one
insert_rejection(rs, sub_id, proposed_by, reason, t) ==
    Append(rs, [submission_id |-> sub_id, proposed_by |-> proposed_by,
                reason |-> reason, seconds |-> <<>>, proposed_at |-> t,
                keyboard |-> FALSE])

\* ... WHERE submission_id = ? ORDER BY proposed_at DESC LIMIT 1.
\* proposed_at is CURRENT_TIMESTAMP, which moves once a second; among rows of
\* the same timestamp the query's choice is not determined, so every such row
\* is a possible answer.  Rows written without a clock step between them stand
\* for rows that may have been written within one second.
get_active_rejection(rs, sub_id) ==
    LET mine == {i \in DOMAIN rs : rs[i].submission_id = sub_id}
    IN  {i \in mine : \A j \in mine : rs[j].proposed_at <= rs[i].proposed_at}

\* Mutant: the name is appended whether it is there or not.
add_second_to_rejection_Always(rs, rejection_id, username) ==
    [rs EXCEPT ![rejection_id].seconds = Append(@, username)]

\* seconds = json.loads(...); if username not in seconds: seconds.append(username)
add_second_to_rejection(rs, rejection_id, username) ==
    IF username \in SeqToSet(rs[rejection_id].seconds) THEN rs
    ELSE [rs EXCEPT ![rejection_id].seconds = Append(@, username)]

----------------------------------------------------------------------------
(* What a handler emitted *)

NoAnswer == [ok |-> FALSE, reviewer1 |-> "-", reviewer2 |-> "-"]

\* op, sub, name: the handler and its arguments; outcome: the branch it took;
\* oracle: the oracle calls it made; email: the template it mailed;
\* text: the names or the reason it posted or mailed;
\* email_error: the send of that email raised; publish: the slot it announced
Out(op, sub_id, name, outcome, oracle, email, text) ==
    [op |-> op, sub |-> sub_id, name |-> name, outcome |-> outcome,
     oracle |-> oracle, answer |-> NoAnswer, email |-> email, text |-> text,
     email_error |-> FALSE, publish |-> NoSlot]

\* the same, for a handler whose email send raised (`error`) or went through
Mailed(op, sub_id, name, outcome, email, text, error) ==
    [Out(op, sub_id, name, outcome, 0, email, text) EXCEPT !.email_error = error]

\* gmail.send_..._email either returns or raises
EmailErrors == BOOLEAN

\* Mutant: the status written before the send is taken back.
log_email_error_RollsBack(written, before) == before

\* except Exception as e: logger.error(...): what was written stays written
log_email_error(written, before) == written

\* the submissions table after the try block around an email send
after_email(written, before, error) ==
    IF error THEN log_email_error(written, before) ELSE written

\* the same, for a handler that got `result` from the oracle
Asked(op, sub_id, name, outcome, result, text) ==
    [Out(op, sub_id, name, outcome, 1, "", text) EXCEPT !.answer = result]

\* handler: the callback of the chat update dispatched last, the submission
\* and reviewer its button names, the user it came from, the text after its
\* command, whether it repeats the update dispatched before it, whether its
\* handler wrote to a table before its first await, the await its coroutine
\* is suspended at ("": it has returned) and the names the coroutine holds
\* in a local list
NoUpdate == [op |-> "", sub |-> 0, name |-> "", user |-> "", text |-> <<>>,
             again |-> FALSE, wrote |-> FALSE, awaits |-> "", saved |-> <<>>]

\* what the tables hold
StoredState == <<submissions, assignments, assignment_history, followups, rejections>>

\* job: the followups of the pass still to be handled, the first of them
\* being the one whose chat post is awaited, and the keyboard of that post
NoJob == [due |-> <<>>, keyboard |-> {}]

\* poll: the timestamp the pass asked the mailbox with, and the messages it
\* listed that are still to be handed to handle_new_submission
NoPoll == [after |-> 0, found |-> <<>>]

\* a handler that returns before it writes anything
NoEffect(op, outcome) ==
    /\ last' = Out(op, 0, "", outcome, 0, "", <<>>)
    /\ UNCHANGED <<submissions, assignments, assignment_history, followups,
                   rejections, buttons, now>>

Names(rows) == [i \in DOMAIN rows |-> rows[i].reviewer_tg_username]

Button(action, sub_id, username) ==
    [action |-> action, submission_id |-> sub_id, username |-> username]

\* the accept / decline keyboard, one row per reviewer
Prompt(sub_id, names) ==
    {Button(k, sub_id, n) : k \in {"accept", "decline"}, n \in SeqToSet(names)}

\* the oracle's answers: a failed call, or reviewer1 / reviewer2
OracleResults ==
    {[ok |-> FALSE, reviewer1 |-> "", reviewer2 |-> ""]}
    \cup [ok : {TRUE}, reviewer1 : OracleNames, reviewer2 : OracleNames]

\* pick_replacement_reviewer is asked for one name; only reviewer1 is read
ReplacementResults == {r \in OracleResults : r.reviewer2 = ""}

----------------------------------------------------------------------------
(* state.py: handle_new_submission *)

\* [r.strip() for r in [reviewer1, reviewer2] if r and r.strip()]
PickedReviewers(result) ==
    SelectSeq(<<Strip(result.reviewer1), Strip(result.reviewer2)>>,
              LAMBDA r : r # "")

\* the command the operator notice asks for: "/override {sub_id} @user1 @user2"
OverrideCommand == "/override"

\* Mutant: a failed oracle call is treated as an answer naming nobody.
assign_reviewers_IgnoresFailure(gmail_message_id, result) ==
    LET sub_id == Len(submissions) + 1
        inserted == insert_submission(submissions, gmail_message_id,
                                      Title(gmail_message_id))
    IN  /\ submissions' = update_submission_status(inserted, sub_id, "assigning")
        /\ last' = Asked("Admit", sub_id, "", "assigned", result, <<>>)
        /\ UNCHANGED <<assignments, assignment_history, followups,
                       rejections, buttons, now>>

\* the part of handle_new_submission after the submission row is inserted
assign_reviewers(gmail_message_id, result) ==
    LET sub_id == Len(submissions) + 1
        inserted == insert_submission(submissions, gmail_message_id,
                                      Title(gmail_message_id))
        reviewers == PickedReviewers(result)
        t == insert_assignments(Tables, sub_id, reviewers)
    IN  IF ~result.ok
        THEN /\ submissions' = inserted
             /\ last' = Asked("Admit", sub_id, "", "oracle_failed", result,
                              <<OverrideCommand>>)
             /\ UNCHANGED <<assignments, assignment_history, followups,
                            rejections, buttons, now>>
        ELSE /\ assignments' = t.rows
             /\ assignment_history' = t.hist
             /\ submissions' = update_submission_status(inserted, sub_id, "assigning")
             /\ buttons' = buttons \cup Prompt(sub_id, reviewers)
             /\ last' = Asked("Admit", sub_id, "", "assigned", result, reviewers)
             /\ UNCHANGED <<followups, rejections, now>>

\* `results`: the answers llm.pick_reviewers may give
handle_new_submission(gmail_message_id, results) ==
    IF get_submission_by_gmail_id(submissions, gmail_message_id) # 0
    THEN /\ last' = Out("Admit",
                        get_submission_by_gmail_id(submissions, gmail_message_id),
                        "", "duplicate", 0, "", <<>>)
         /\ UNCHANGED <<submissions, assignments, assignment_history, followups,
                        rejections, buttons, now>>
    ELSE \E result \in results : assign_reviewers(gmail_message_id, result)

----------------------------------------------------------------------------
(* state.py: handle_reviewer_accept, _transition_to_under_review *)

\* Mutant: only a declined row counts as recorded.
AlreadyRecorded_OnlyDeclined(assignment) == assignment.status = "declined"

\* assignment["status"] != "pending": the answer is "Already recorded!"
AlreadyRecorded(assignment) == assignment.status # "pending"

\* Mutant: the pending rows are not looked at.
AllConfirmed_AnyActive(rows, sub_id) ==
    SelectSeq(get_assignments_for_submission(rows, sub_id),
              LAMBDA a : a.status # "declined") # <<>>

\* active = rows not declined; transition when active and none still pending
AllConfirmed(rows, sub_id) ==
    LET all_assignments == get_assignments_for_submission(rows, sub_id)
        active == SelectSeq(all_assignments, LAMBDA a : a.status # "declined")
        still_pending == SelectSeq(active, LAMBDA a : a.status = "pending")
    IN  still_pending = <<>> /\ active # <<>>

handle_reviewer_accept(sub_id, username) ==
    LET assignment == get_assignment(assignments, sub_id, username)
        rows == update_assignment_status(assignments, sub_id, username, "confirmed")
        reviewers == Names(get_confirmed_reviewers(rows, sub_id))
    IN  IF assignment = NoRow
        THEN NoEffect("Accept", "not_found")
        ELSE IF AlreadyRecorded(assignment)
        THEN NoEffect("Accept", "already")
        ELSE IF AllConfirmed(rows, sub_id)
        THEN \E error \in EmailErrors :
             /\ assignments' = rows
             /\ submissions' = after_email(
                    update_submission_status(submissions, sub_id, "under_review"),
                    submissions, error)
             /\ followups' = insert_followup(followups, sub_id,
                                             now + FollowupIntervalDays)
             /\ buttons' = buttons \cup
                    {Button("done", sub_id, r) : r \in SeqToSet(reviewers)}
             /\ last' = Mailed("Accept", sub_id, username, "under_review",
                               "under_review", reviewers, error)
             /\ UNCHANGED <<assignment_history, rejections, now>>
        ELSE /\ assignments' = rows
             /\ last' = Out("Accept", sub_id, username, "confirmed", 0, "", <<>>)
             /\ UNCHANGED <<submissions, assignment_history, followups,
                            rejections, buttons, now>>

----------------------------------------------------------------------------
(* state.py: handle_reviewer_decline *)

\* Mutant: the roster is compared with the case as given.
ReplacementRefused_CaseSensitive(new_reviewer, excluded) ==
    \/ new_reviewer = ""
    \/ new_reviewer \in SeqToSet(excluded)

\* Mutant: an empty name is not refused.
ReplacementRefused_EmptyAllowed(new_reviewer, excluded) ==
    Lower(new_reviewer) \in {Lower(e) : e \in SeqToSet(excluded)}

\* not new_reviewer or new_reviewer.lower() in [e.lower() for e in excluded]
ReplacementRefused(new_reviewer, excluded) ==
    \/ new_reviewer = ""
    \/ Lower(new_reviewer) \in {Lower(e) : e \in SeqToSet(excluded)}

\* the part of handle_reviewer_decline after the row is marked declined
find_replacement(sub_id, username, result) ==
    LET rows == update_assignment_status(assignments, sub_id, username, "declined")
        excluded == Names(get_assignments_for_submission(rows, sub_id))
        new_reviewer == Strip(result.reviewer1)
        t == insert_assignment([rows |-> rows, hist |-> assignment_history],
                               sub_id, new_reviewer)
        confirmed == Names(get_confirmed_reviewers(rows, sub_id))
    IN  IF result.ok /\ ~ReplacementRefused(new_reviewer, excluded)
        THEN /\ assignments' = t.rows
             /\ assignment_history' = t.hist
             /\ buttons' = buttons \cup Prompt(sub_id, <<new_reviewer>>)
             /\ last' = Asked("Decline", sub_id, username, "replaced", result,
                              <<new_reviewer>>)
             /\ UNCHANGED <<submissions, followups, rejections, now>>
        ELSE /\ assignments' = rows
             /\ last' = Asked("Decline", sub_id, username, "manual", result, confirmed)
             /\ UNCHANGED <<submissions, assignment_history, followups,
                            rejections, buttons, now>>

\* `results`: the answers llm.pick_replacement_reviewer may give
handle_reviewer_decline(sub_id, username, results) ==
    LET assignment == get_assignment(assignments, sub_id, username)
    IN  IF assignment = NoRow
        THEN NoEffect("Decline", "not_found")
        ELSE IF AlreadyRecorded(assignment)
        THEN NoEffect("Decline", "already")
        ELSE \E result \in results : find_replacement(sub_id, username, result)

----------------------------------------------------------------------------
(* state.py: handle_reviewer_done, _transition_to_accepted *)

\* Mutant: two finished reviews are required.
AllDone_NeedsTwo(rows, sub_id) ==
    LET active == SelectSeq(get_assignments_for_submission(rows, sub_id),
                            LAMBDA a : a.status \in {"confirmed", "done"})
    IN  Len(active) >= 2 /\ \A i \in DOMAIN active : active[i].status = "done"

\* Mutant: one finished review is enough.
AllDone_AnyDone(rows, sub_id) ==
    \E i \in DOMAIN rows : rows[i].submission_id = sub_id /\ rows[i].status = "done"

\* active = rows confirmed or done; accept when active and all of them done
AllDone(rows, sub_id) ==
    LET all_assignments == get_assignments_for_submission(rows, sub_id)
        active == SelectSeq(all_assignments,
                            LAMBDA a : a.status \in {"confirmed", "done"})
        done_list == SelectSeq(active, LAMBDA a : a.status = "done")
    IN  active # <<>> /\ Len(done_list) >= Len(active)

\* Mutant: the submission status is not looked at.
DoneAllowed_Always(status) == TRUE

\* the statuses in which handle_reviewer_done goes on
DoneAllowed(status) == status \in {"under_review", "assigning"}

handle_reviewer_done(sub_id, username) ==
    LET assignment == get_assignment(assignments, sub_id, username)
        rows == mark_assignment_done(assignments, sub_id, username)
        active == SelectSeq(get_assignments_for_submission(rows, sub_id),
                            LAMBDA a : a.status \in {"confirmed", "done"})
        still_pending == SelectSeq(Names(SelectSeq(active,
                                       LAMBDA a : a.status = "confirmed")),
                                   LAMBDA u : u # username)
    IN  IF sub_id \notin SubIds
        THEN NoEffect("Done", "no_submission")
        ELSE IF ~DoneAllowed(submissions[sub_id].status)
        THEN NoEffect("Done", "not_under_review")
        ELSE IF assignment = NoRow
        THEN NoEffect("Done", "not_found")
        ELSE IF assignment.status = "done"
        THEN NoEffect("Done", "already")
        ELSE IF AllDone(rows, sub_id)
        THEN \E error \in EmailErrors :
             LET publish_dt == compute_publish_date(now, publish_time)
             IN  /\ assignments' = rows
                 /\ submissions' = after_email(
                        set_submission_accepted(submissions, sub_id, publish_dt.day),
                        submissions, error)
                 /\ last' = [Mailed("Done", sub_id, username, "accepted",
                                    "acceptance", <<>>, error)
                                EXCEPT !.publish = publish_dt]
                 /\ UNCHANGED <<assignment_history, followups, rejections,
                                buttons, now>>
        ELSE /\ assignments' = rows
             /\ last' = Out("Done", sub_id, username, "done", 0, "", still_pending)
             /\ UNCHANGED <<submissions, assignment_history, followups,
                            rejections, buttons, now>>

----------------------------------------------------------------------------
(* state.py: handle_rejection_proposal, handle_second, handle_confirm_rejection *)

handle_rejection_proposal(sub_id, proposed_by, reason) ==
    /\ rejections' = insert_rejection(rejections, sub_id, proposed_by, reason, now)
    /\ last' = Out("Propose", sub_id, proposed_by, "proposed", 0, "", <<reason>>)
    /\ UNCHANGED <<submissions, assignments, assignment_history, followups,
                   buttons, now>>

\* the proposal message gets the confirm button at this count
ConfirmThreshold == 2

\* Mutant: one seconder is enough for the button.
WithButton_AtOne(count) == count >= 1

\* count >= 2: the proposal message is edited to carry the confirm button
WithButton(count) == count >= ConfirmThreshold

\* bot.edit_message_text(message_id=rejection["tg_proposal_message_id"], ...)
edit_message_text(rs, rejection_id, keyboard) ==
    [rs EXCEPT ![rejection_id].keyboard = keyboard]

\* Mutant: the proposer is not told apart.
SelfSecond_Never(username, rejection) == FALSE

\* username == rejection["proposed_by"]
SelfSecond(username, rejection) == username = rejection.proposed_by

handle_second(sub_id, username) ==
    IF get_active_rejection(rejections, sub_id) = {}
    THEN NoEffect("Second", "no_proposal")
    ELSE \E rejection_id \in get_active_rejection(rejections, sub_id) :
         LET rs == add_second_to_rejection(rejections, rejection_id, username)
             seconds == rs[rejection_id].seconds
         IN  IF SelfSecond(username, rejections[rejection_id])
             THEN NoEffect("Second", "self_second")
             ELSE /\ rejections' = edit_message_text(rs, rejection_id,
                                                     WithButton(Len(seconds)))
                  /\ buttons' = IF WithButton(Len(seconds))
                                THEN buttons \cup {Button("confirm_rejection", sub_id, "")}
                                ELSE buttons
                  /\ last' = Out("Second", sub_id, username,
                                 IF WithButton(Len(seconds))
                                 THEN "button" ELSE "plain",
                                 0, "", seconds)
                  /\ UNCHANGED <<submissions, assignments, assignment_history,
                                 followups, now>>

\* reason = rejection["reason"] if rejection else ""
RejectionReasons(rs, sub_id) ==
    IF get_active_rejection(rs, sub_id) = {} THEN {""}
    ELSE {rs[i].reason : i \in get_active_rejection(rs, sub_id)}

\* Mutant: nobody is turned away.
NotOperator_Never(operator, tg_id) == FALSE

\* Mutant: an unset operator id turns everybody away.
NotOperator_WhenUnset(operator, tg_id) == tg_id # operator

\* operator_user_id and user.id != operator_user_id
NotOperator(operator, tg_id) == operator # 0 /\ tg_id # operator

\* a command or button refused because the caller is not the operator
NotAllowed(op, sub_id, tg_id) ==
    /\ last' = Out(op, sub_id, UserOf(tg_id), "not_operator", 0, "", <<>>)
    /\ UNCHANGED <<submissions, assignments, assignment_history, followups,
                   rejections, buttons, now>>

handle_confirm_rejection(sub_id, operator_tg_id) ==
    IF NotOperator(operator_user_id, operator_tg_id)
    THEN NotAllowed("Confirm", sub_id, operator_tg_id)
    ELSE \E reason \in RejectionReasons(rejections, sub_id), error \in EmailErrors :
        /\ submissions' = after_email(set_submission_rejected(submissions, sub_id),
                                      submissions, error)
        /\ last' = Mailed("Confirm", sub_id, UserOf(operator_tg_id), "rejected",
                          "rejection", <<reason>>, error)
        /\ UNCHANGED <<assignments, assignment_history, followups, rejections,
                       buttons, now>>

----------------------------------------------------------------------------
(* state.py: handle_override *)

\* Mutant: the submission keeps the status it has.
handle_override_KeepsStatus(sub_id, new_reviewers, caller) ==
    LET cleared == clear_pending_assignments(assignments, sub_id)
        t == insert_assignments([rows |-> cleared, hist |-> assignment_history],
                                sub_id, new_reviewers)
    IN  IF sub_id \notin SubIds
        THEN NoEffect("Override", "no_submission")
        ELSE /\ assignments' = t.rows
             /\ assignment_history' = t.hist
             /\ buttons' = buttons \cup Prompt(sub_id, new_reviewers)
             /\ last' = Out("Override", sub_id, caller, "applied", 0, "", new_reviewers)
             /\ UNCHANGED <<submissions, followups, rejections, now>>

\* `caller` sent the command; the handler does not read it, the record does
handle_override(sub_id, new_reviewers, caller) ==
    LET cleared == clear_pending_assignments(assignments, sub_id)
        t == insert_assignments([rows |-> cleared, hist |-> assignment_history],
                                sub_id, new_reviewers)
    IN  IF sub_id \notin SubIds
        THEN NoEffect("Override", "no_submission")
        ELSE /\ assignments' = t.rows
             /\ assignment_history' = t.hist
             /\ submissions' = update_submission_status(submissions, sub_id, "assigning")
             /\ buttons' = buttons \cup Prompt(sub_id, new_reviewers)
             /\ last' = Out("Override", sub_id, caller, "applied", 0, "", new_reviewers)
             /\ UNCHANGED <<followups, rejections, now>>

----------------------------------------------------------------------------
(* state.py: send_followup; scheduler.py: _check_followups *)

\* Mutant: the followup is marked sent and no next one is scheduled.
send_followup_NoNext(st, followup_id, failing, t) ==
    LET sub_id == st.fs[followup_id].submission_id
        active == SelectSeq(get_assignments_for_submission(assignments, sub_id),
                            LAMBDA a : a.status \in {"confirmed", "done"})
    IN  IF submissions[sub_id].status # "under_review" THEN st
        ELSE IF active = <<>> THEN st
        ELSE IF followup_id \in failing THEN st
        ELSE [fs |-> mark_followup_sent(st.fs, followup_id),
              sent |-> Append(st.sent, followup_id),
              posted |-> st.posted \cup
                  {Button("done", sub_id, r) : r \in SeqToSet(Names(active))}]

\* One send_followup call on the tables `st` = [fs, sent]; `failing` are the
\* followups whose chat post raises, which _check_followups logs and skips.
send_followup(st, followup_id, failing, t) ==
    LET sub_id == st.fs[followup_id].submission_id
        active == SelectSeq(get_assignments_for_submission(assignments, sub_id),
                            LAMBDA a : a.status \in {"confirmed", "done"})
    IN  IF submissions[sub_id].status # "under_review" THEN st
        ELSE IF active = <<>> THEN st
        ELSE IF followup_id \in failing THEN st
        ELSE [fs |-> insert_followup(mark_followup_sent(st.fs, followup_id),
                                     sub_id, t + FollowupIntervalDays),
              sent |-> Append(st.sent, followup_id),
              posted |-> st.posted \cup
                  {Button("done", sub_id, r) : r \in SeqToSet(Names(active))}]

\* for followup in due: send_followup(followup)
RECURSIVE send_followups(_, _, _, _)
send_followups(st, due, failing, t) ==
    IF due = <<>> THEN st
    ELSE send_followups(send_followup(st, Head(due), failing, t),
                        Tail(due), failing, t)

check_followups(failing) ==
    LET due == Sorted(get_pending_followups(followups, submissions, now))
        st == send_followups([fs |-> followups, sent |-> <<>>, posted |-> {}],
                             due, failing, now)
    IN  /\ followups' = st.fs
        /\ buttons' = buttons \cup st.posted
        /\ last' = Out("Followups", 0, "", IF st.sent = <<>> THEN "none" ELSE "sent",
                       0, "", <<>>)
        /\ UNCHANGED <<submissions, assignments, assignment_history, rejections,
                       now>>

----------------------------------------------------------------------------
(* telegram_handlers.py: commands and button callbacks *)

\* Mutant: every presser is let through.
WrongUser_Never(user, target_username) == FALSE

\* not user.username or user.username.lower() != target_username.lower();
\* the username of a user who has none is ""
WrongUser(user, target_username) ==
    user = "" \/ Lower(user) # Lower(target_username)

Refused(op) == NoEffect(op, "wrong_user")

cb_accept(b, user) ==
    /\ b \in buttons /\ b.action = "accept"
    /\ IF WrongUser(user, b.username) THEN Refused("Accept")
       ELSE handle_reviewer_accept(b.submission_id, b.username)

cb_decline(b, user, results) ==
    /\ b \in buttons /\ b.action = "decline"
    /\ IF WrongUser(user, b.username) THEN Refused("Decline")
       ELSE handle_reviewer_decline(b.submission_id, b.username, results)

cb_done(b, user) ==
    /\ b \in buttons /\ b.action = "done"
    /\ IF WrongUser(user, b.username) THEN Refused("Done")
       ELSE handle_reviewer_done(b.submission_id, b.username)

\* len(matches) > 1: the caller is asked to be more specific
TooMany(matches) == Len(matches) > 1

\* /done <keyword>; `text` is " ".join(context.args)
cmd_done(user, text) ==
    LET keyword == strip(strip(strip(text, Whitespace), {"\""}), {"'"})
        matches == get_submission_by_title_keyword(submissions, keyword)
    IN  IF matches = <<>> THEN NoEffect("Done", "no_match")
        ELSE IF TooMany(matches) THEN NoEffect("Done", "many_matches")
        ELSE handle_reviewer_done(matches[1], user)

\* /reject <keyword> <reason>; `keyword` is context.args[0]
cmd_reject(user, keyword, reason) ==
    LET matches == get_submission_by_title_keyword(submissions, keyword)
    IN  IF matches = <<>> THEN NoEffect("Propose", "no_match")
        ELSE IF TooMany(matches) THEN NoEffect("Propose", "many_matches")
        ELSE handle_rejection_proposal(matches[1], user, reason)

\* /second <keyword>; `text` is " ".join(context.args)
cmd_second(user, text) ==
    LET keyword == strip(text, Whitespace)
        matches == get_submission_by_title_keyword(submissions, keyword)
    IN  IF matches = <<>> THEN NoEffect("Second", "no_match")
        ELSE IF TooMany(matches) THEN NoEffect("Second", "many_matches")
        ELSE handle_second(matches[1], user)

\* /override <sub_id> @user1 [@user2 ...]
OverrideLists(names, longest) == UNION {[1..n -> names] : n \in 1..longest}

cmd_override(user, sub_id, new_reviewers) ==
    IF NotOperator(operator_user_id, UserId(user))
    THEN NotAllowed("Override", sub_id, UserId(user))
    ELSE handle_override(sub_id, new_reviewers, user)

cb_confirm_rejection(b, user) ==
    /\ b \in buttons /\ b.action = "confirm_rejection"
    /\ IF NotOperator(operator_user_id, UserId(user))
       THEN NotAllowed("Confirm", b.submission_id, UserId(user))
       ELSE handle_confirm_rejection(b.submission_id, UserId(user))

----------------------------------------------------------------------------
(* scheduler.py: the timer jobs, and the clock *)

\* _poll_gmail hands each message of the mailbox to handle_new_submission
poll_gmail(gmail_message_id, results) ==
    handle_new_submission(gmail_message_id, results)

Tick ==
    /\ now < MaxTime
    /\ now' = now + 1
    /\ last' = Out("Tick", 0, "", "", 0, "", <<>>)
    /\ args' = <<>>
    /\ UNCHANGED <<submissions, assignments, assignment_history, followups,
                   rejections, buttons, config, mail, handler, job>>

----------------------------------------------------------------------------
(* scheduler.py: _poll_gmail; gmail_client.py: poll_new_submissions *)

SecondsPerDay == 86400

\* time.time() on day `today`, in whole seconds
time(today) == today * SecondsPerDay

\* the first run looks back this many seconds
LookbackSeconds == 86400

\* saved = db.get_state(_DB_KEY); float(saved) if saved else time.time() - 86400
load_last_checked_ts(saved, t) ==
    IF saved # <<>> THEN saved[1] ELSE t - LookbackSeconds

\* db.set_state(_DB_KEY, str(ts)): one row per key
save_last_checked_ts(ts) == <<ts>>

\* How messages().list(...).execute() may end: it returns the messages, it
\* raises HttpError, or it raises something else (no network, no token).
ListOutcomes == {"listed", "http_error", "raised"}

\* q = "after:{int(last_checked_timestamp)} ...": the ids of the messages
\* received from that second on, or [] when HttpError is caught and logged
poll_new_submissions(box, last_checked_timestamp, outcome) ==
    IF outcome = "http_error" THEN <<>>
    ELSE Sorted({m.id : m \in {x \in box : x.internalDate >= last_checked_timestamp}})

\* _poll_gmail up to the loop over the listed messages; an exception that
\* leaves poll_new_submissions skips the save and the loop
poll_gmail_list(outcome) ==
    LET last_checked_ts == load_last_checked_ts(bot_state, time(now))
        found == poll_new_submissions(mailbox, last_checked_ts, outcome)
    IN  /\ poll.found = <<>>
        /\ IF outcome = "raised"
           THEN /\ poll' = [after |-> last_checked_ts, found |-> <<>>]
                /\ UNCHANGED bot_state
           ELSE /\ poll' = [after |-> last_checked_ts, found |-> found]
                /\ bot_state' = save_last_checked_ts(time(now))
        /\ last' = Out("Poll", 0, "", outcome, 0, "", <<>>)
        /\ UNCHANGED <<submissions, assignments, assignment_history, followups,
                       rejections, buttons, now, mailbox>>

\* for email_data in submissions: await state.handle_new_submission(...)
poll_gmail_next(results) ==
    /\ poll.found # <<>>
    /\ handle_new_submission(Head(poll.found), results)
    /\ poll' = [poll EXCEPT !.found = Tail(poll.found)]
    /\ UNCHANGED <<bot_state, mailbox>>

\* a message reaches the mailbox
deliver(gmail_message_id) ==
    /\ \A m \in mailbox : m.id # gmail_message_id
    /\ mailbox' = mailbox \cup
           {[id |-> gmail_message_id, internalDate |-> time(now)]}
    /\ last' = Out("Deliver", 0, "", "", 0, "", <<>>)
    /\ UNCHANGED <<submissions, assignments, assignment_history, followups,
                   rejections, buttons, now, bot_state, poll>>

----------------------------------------------------------------------------
(* The coroutines between their awaits *)

\* the record of an update that is dispatched now
Update(op, sub_id, name, user, text) ==
    [NoUpdate EXCEPT !.op = op, !.sub = sub_id, !.name = name, !.user = user,
                     !.text = text,
                     !.again = /\ handler.op = op /\ handler.sub = sub_id
                               /\ handler.name = name /\ handler.user = user
                               /\ handler.text = text,
                     !.wrote = StoredState' # StoredState]

\* handle_reviewer_accept up to the await of the under-review email in
\* _transition_to_under_review; a branch without that await runs to its return
accept_until_email(sub_id, username, update) ==
    LET assignment == get_assignment(assignments, sub_id, username)
        rows == update_assignment_status(assignments, sub_id, username, "confirmed")
        reviewers == Names(get_confirmed_reviewers(rows, sub_id))
    IN  IF assignment = NoRow
        THEN NoEffect("Accept", "not_found") /\ handler' = update
        ELSE IF AlreadyRecorded(assignment)
        THEN NoEffect("Accept", "already") /\ handler' = update
        ELSE IF AllConfirmed(rows, sub_id)
        THEN /\ assignments' = rows
             /\ submissions' = update_submission_status(submissions, sub_id,
                                                        "under_review")
             /\ followups' = insert_followup(followups, sub_id,
                                             now + FollowupIntervalDays)
             /\ last' = Out("Accept", sub_id, username, "under_review", 0, "", <<>>)
             /\ UNCHANGED <<assignment_history, rejections, buttons, now>>
             /\ handler' = [update EXCEPT !.awaits = "email", !.saved = reviewers]
        ELSE /\ assignments' = rows
             /\ last' = Out("Accept", sub_id, username, "confirmed", 0, "", <<>>)
             /\ UNCHANGED <<submissions, assignment_history, followups,
                            rejections, buttons, now>>
             /\ handler' = update

\* _transition_to_under_review from the return of the email send: the done
\* buttons of the reviewers read before the send are posted
accept_after_email(error) ==
    /\ handler.awaits = "email"
    /\ buttons' = buttons \cup
           {Button("done", handler.sub, r) : r \in SeqToSet(handler.saved)}
    /\ handler' = [handler EXCEPT !.awaits = "", !.saved = <<>>]
    /\ last' = Mailed("Accept", handler.sub, handler.name, "posted",
                      "under_review", handler.saved, error)
    /\ UNCHANGED <<submissions, assignments, assignment_history, followups,
                   rejections, now>>

\* handle_reviewer_decline up to the await of llm.pick_replacement_reviewer
decline_until_oracle(sub_id, username, update) ==
    LET assignment == get_assignment(assignments, sub_id, username)
        rows == update_assignment_status(assignments, sub_id, username, "declined")
        excluded == Names(get_assignments_for_submission(rows, sub_id))
    IN  IF assignment = NoRow
        THEN NoEffect("Decline", "not_found") /\ handler' = update
        ELSE IF AlreadyRecorded(assignment)
        THEN NoEffect("Decline", "already") /\ handler' = update
        ELSE /\ assignments' = rows
             /\ last' = Out("Decline", sub_id, username, "declined", 0, "", <<>>)
             /\ UNCHANGED <<submissions, assignment_history, followups,
                            rejections, buttons, now>>
             /\ handler' = [update EXCEPT !.awaits = "oracle", !.saved = excluded]

\* handle_reviewer_decline from the oracle's answer
decline_after_oracle(result) ==
    LET sub_id == handler.sub
        username == handler.name
        new_reviewer == Strip(result.reviewer1)
        t == insert_assignment(Tables, sub_id, new_reviewer)
        confirmed == Names(get_confirmed_reviewers(assignments, sub_id))
    IN  /\ handler.awaits = "oracle"
        /\ handler' = [handler EXCEPT !.awaits = "", !.saved = <<>>]
        /\ IF result.ok /\ ~ReplacementRefused(new_reviewer, handler.saved)
           THEN /\ assignments' = t.rows
                /\ assignment_history' = t.hist
                /\ buttons' = buttons \cup Prompt(sub_id, <<new_reviewer>>)
                /\ last' = Asked("Decline", sub_id, username, "replaced", result,
                                 <<new_reviewer>>)
                /\ UNCHANGED <<submissions, followups, rejections, now>>
           ELSE /\ last' = Asked("Decline", sub_id, username, "manual", result,
                                 confirmed)
                /\ UNCHANGED <<submissions, assignments, assignment_history,
                               followups, rejections, buttons, now>>

\* active = [a for a in all_assignments if a["status"] in ("confirmed", "done")]
ActiveReviewers(sub_id) ==
    SelectSeq(get_assignments_for_submission(assignments, sub_id),
              LAMBDA a : a.status \in {"confirmed", "done"})

\* send_followup gets as far as its chat post
ReachesPost(followup_id) ==
    LET sub_id == followups[followup_id].submission_id
    IN  /\ submissions[sub_id].status = "under_review"
        /\ ActiveReviewers(sub_id) # <<>>

\* for followup in due: the loop up to the first send_followup that awaits
\* its chat post, with the keyboard built for that post
RECURSIVE NextPost(_)
NextPost(due) ==
    IF due = <<>> THEN NoJob
    ELSE IF ReachesPost(Head(due))
    THEN [due |-> due,
          keyboard |-> {Button("done", followups[Head(due)].submission_id, r) :
                           r \in SeqToSet(Names(ActiveReviewers(
                                    followups[Head(due)].submission_id)))}]
    ELSE NextPost(Tail(due))

\* _check_followups from its start to the first chat post; a pass that
\* reaches no post writes nothing and is left out
followups_until_post ==
    /\ job = NoJob
    /\ job' = NextPost(Sorted(get_pending_followups(followups, submissions, now)))
    /\ job' # NoJob
    /\ last' = Out("Followups", followups[Head(job'.due)].submission_id, "",
                   "posting", 0, "", <<>>)
    /\ UNCHANGED <<submissions, assignments, assignment_history, followups,
                   rejections, buttons, now>>

\* send_followup from the return of its chat post, which raised (`failing`)
\* or not, and the loop up to the next post; the status is not read again
followups_after_post(failing) ==
    LET followup_id == Head(job.due)
        sub_id == followups[followup_id].submission_id
    IN  /\ job # NoJob
        /\ IF failing
           THEN /\ last' = Out("Followups", sub_id, "", "failed", 0, "", <<>>)
                /\ UNCHANGED <<followups, buttons>>
           ELSE /\ followups' = insert_followup(
                                    mark_followup_sent(followups, followup_id),
                                    sub_id, now + FollowupIntervalDays)
                /\ buttons' = buttons \cup job.keyboard
                /\ last' = Out("Followups", sub_id, "", "sent", 0, "", <<>>)
        /\ job' = NextPost(Tail(job.due))
        /\ UNCHANGED <<submissions, assignments, assignment_history, rejections,
                       now>>

----------------------------------------------------------------------------
(* The specification *)

\* the bot's first poll, on one of `dates`, with one of each setting
Start(operators, publish_times, dates) ==
    /\ submissions = <<>>
    /\ assignments = <<>>
    /\ assignment_history = <<>>
    /\ followups = <<>>
    /\ rejections = <<>>
    /\ buttons = {}
    /\ operator_user_id \in operators
    /\ publish_time \in publish_times
    /\ now \in dates
    /\ args = <<>>
    /\ handler = NoUpdate
    /\ job = NoJob
    /\ bot_state = <<>>
    /\ mailbox = {}
    /\ poll = NoPoll
    /\ last = Out("Init", 0, "", "", 0, "", <<>>)

\* config["workflow"].get("publish_time", "09:30")
DefaultPublishTime == <<"0", "9", ":", "3", "0">>

Init == Start(OperatorIds, {DefaultPublishTime}, {0})

\* The configuration is read once, when the bot starts.
Admit(messages, results) ==
    /\ \E g \in messages : poll_gmail(g, results)
    /\ args' = <<>>
    /\ UNCHANGED <<config, mail, handler, job>>

Accept ==
    /\ \E b \in buttons, user \in Users : cb_accept(b, user)
    /\ args' = <<>>
    /\ UNCHANGED <<config, mail, handler, job>>

Decline(results) ==
    /\ \E b \in buttons, user \in Users : cb_decline(b, user, results)
    /\ args' = <<>>
    /\ UNCHANGED <<config, mail, handler, job>>

DoneButton ==
    /\ \E b \in buttons, user \in Users : cb_done(b, user)
    /\ args' = <<>>
    /\ UNCHANGED <<config, mail, handler, job>>

DoneCommand(keywords) ==
    /\ \E user \in Users, text \in keywords : cmd_done(user, text) /\ args' = text
    /\ UNCHANGED <<config, mail, handler, job>>

Propose(users, keywords, reasons) ==
    /\ \E user \in users, keyword \in keywords, reason \in reasons :
           cmd_reject(user, keyword, reason) /\ args' = keyword
    /\ UNCHANGED <<config, mail, handler, job>>

Second(keywords) ==
    /\ \E user \in Users, text \in keywords : cmd_second(user, text) /\ args' = text
    /\ UNCHANGED <<config, mail, handler, job>>

Confirm(callers) ==
    /\ \E b \in buttons, user \in callers : cb_confirm_rejection(b, user)
    /\ args' = <<>>
    /\ UNCHANGED <<config, mail, handler, job>>

ApplyOverride(ids, names, longest, callers) ==
    /\ \E user \in callers, sub_id \in ids,
          new_reviewers \in OverrideLists(names, longest) :
           cmd_override(user, sub_id, new_reviewers)
    /\ args' = <<>>
    /\ UNCHANGED <<config, mail, handler, job>>

CheckFollowups ==
    /\ \E failing \in SUBSET get_pending_followups(followups, submissions, now) :
           check_followups(failing)
    /\ args' = <<>>
    /\ UNCHANGED <<config, mail, handler, job>>

\* the tables stay within these sizes
Limits(rows, fups, rejs) ==
    /\ Len(assignment_history') <= rows
    /\ Len(followups') <= fups
    /\ Len(rejections') <= rejs

\* the commands that are explored name a submission
Resolved == last'.outcome # "no_match"

\* the emails that are explored go through
Delivered == ~last'.email_error

\* the outcomes of a handler that returned before it wrote or sent anything
Idle ==
    {"not_found", "already", "wrong_user", "no_match", "many_matches",
     "no_submission", "not_under_review", "no_proposal", "self_second",
     "not_operator", "duplicate", "none"}

\* A step that leaves the state of the program as it was is explored as the
\* last step of a behaviour: what can follow it can follow the state before.
Continues == last.outcome \notin Idle

\* the start with no operator id configured: every caller may override and
\* confirm
Unconfigured == Start({0}, {DefaultPublishTime}, {0})

(* Spec: the assignment protocol with every oracle answer and override     *)
(* list, and one proposer's rejection proposals beside it.                 *)

AssignLimits == Limits(MaxRows, MaxFollowups, FewRejections) /\ Resolved /\ Delivered

Next ==
    \/ Continues /\ Admit(GmailIds, OracleResults) /\ AssignLimits
    \/ Continues /\ Accept /\ AssignLimits
    \/ Continues /\ Decline(ReplacementResults) /\ AssignLimits
    \/ Continues /\ DoneButton /\ AssignLimits
    \/ Continues /\ DoneCommand(OneKeyword) /\ AssignLimits
    \/ Continues /\ Propose({"carol"}, OneKeyword, {"spam"}) /\ AssignLimits
    \/ Continues /\ Second(OneKeyword) /\ AssignLimits
    \/ Continues /\ Confirm({"carol"}) /\ AssignLimits
    \/ Continues /\ ApplyOverride(GmailIds, OverrideNames, MaxOverride, {"carol"}) /\ AssignLimits
    \/ Continues /\ CheckFollowups /\ AssignLimits
    \/ Continues /\ Tick

Spec == Unconfigured /\ [][Next]_vars

(* SpecReject: the rejection protocol with every proposer and reason, and  *)
(* one reviewer's assignment beside it.                                    *)

FewResults == {r \in ReplacementResults : r.reviewer1 \in {"", "alice"}}

RejectLimits == Limits(FewRows, FewFollowups, MaxRejections) /\ Resolved /\ Delivered

NextReject ==
    \/ Continues /\ Admit(GmailIds, FewResults) /\ RejectLimits
    \/ Continues /\ Accept /\ RejectLimits
    \/ Continues /\ Decline(FewResults) /\ RejectLimits
    \/ Continues /\ DoneButton /\ RejectLimits
    \/ Continues /\ DoneCommand(OneKeyword) /\ RejectLimits
    \/ Continues /\ Propose(Users, OneKeyword, Reasons) /\ RejectLimits
    \/ Continues /\ Second(OneKeyword) /\ RejectLimits
    \/ Continues /\ Confirm({"carol"}) /\ RejectLimits
    \/ Continues /\ ApplyOverride(GmailIds, {"alice"}, MaxOverride, {"carol"}) /\ RejectLimits
    \/ Continues /\ CheckFollowups /\ RejectLimits
    \/ Continues /\ Tick

SpecReject == Unconfigured /\ [][NextReject]_vars

(* SpecOperator: the operator's commands from the operator and from        *)
(* another caller, with and without a configured operator id, and override *)
(* lists of two reviewers; the clock stands still.                         *)

\* carol is the operator where one is configured, bob never is
Callers == {"bob", "carol"}

OperatorLimits == Limits(MoreRows, FewFollowups, FewRejections) /\ Resolved /\ Delivered

NextOperator ==
    \/ Continues /\ Admit(GmailIds, FewResults) /\ OperatorLimits
    \/ Continues /\ Accept /\ OperatorLimits
    \/ Continues /\ Decline(FewResults) /\ OperatorLimits
    \/ Continues /\ DoneButton /\ OperatorLimits
    \/ Continues /\ DoneCommand(OneKeyword) /\ OperatorLimits
    \/ Continues /\ Propose({"alice"}, OneKeyword, {"spam"}) /\ OperatorLimits
    \/ Continues /\ Second(OneKeyword) /\ OperatorLimits
    \/ Continues /\ Confirm(Callers) /\ OperatorLimits
    \/ Continues /\ ApplyOverride(GmailIds, {"alice", "bob"}, MoreOverride, Callers) /\ OperatorLimits
    \/ Continues /\ CheckFollowups /\ OperatorLimits

SpecOperator == Init /\ [][NextOperator]_vars

(* SpecTwo: two submissions side by side with one reviewer each, and the   *)
(* commands that name one of them.                                         *)

\* the oracle's answer to an Admit, and to a Decline
Failed == {[ok |-> FALSE, reviewer1 |-> "", reviewer2 |-> ""]}
AliceOnly == {[ok |-> TRUE, reviewer1 |-> "alice", reviewer2 |-> ""]}
BobOnly == {[ok |-> TRUE, reviewer1 |-> "bob", reviewer2 |-> ""]}

\* a keyword for each title
TwoKeywords == {<<"1">>, <<"2">>}

\* the steps that are explored write something
Effective ==
    <<submissions, assignments, assignment_history, followups, rejections,
      buttons>>' #
    <<submissions, assignments, assignment_history, followups, rejections,
      buttons>>

\* the messages are stored in the order of their ids
InOrder == \A i \in DOMAIN submissions' : submissions'[i].gmail_message_id = i

TwoLimits ==
    /\ Limits(MaxRows, MoreFollowups, FewRejections)
    /\ Effective /\ Delivered /\ InOrder

NextTwo ==
    \/ Admit(1..MoreSubs, AliceOnly \cup Failed) /\ TwoLimits
    \/ Accept /\ TwoLimits
    \/ Decline(BobOnly) /\ TwoLimits
    \/ DoneButton /\ TwoLimits
    \/ DoneCommand(TwoKeywords) /\ TwoLimits
    \/ Propose({"carol"}, TwoKeywords, {"spam"}) /\ TwoLimits
    \/ Second(TwoKeywords) /\ TwoLimits
    \/ Confirm({"carol"}) /\ TwoLimits
    \/ ApplyOverride(1..MoreSubs, {"bob"}, MaxOverride, {"carol"}) /\ TwoLimits
    \/ CheckFollowups /\ TwoLimits
    \/ Tick

SpecTwo == Unconfigured /\ [][NextTwo]_vars

(* SpecKeyword: two submissions on their way to accepted or rejected,      *)
(* every keyword a caller may type, and emails that may fail.              *)

KeywordLimits == Limits(MaxRows, MaxFollowups, FewRejections)

NextKeyword ==
    \/ Admit(1..MoreSubs, AliceOnly) /\ KeywordLimits
    \/ Accept /\ KeywordLimits
    \/ DoneCommand(Keywords) /\ KeywordLimits
    \/ Propose({"carol"}, Keywords, {"spam"}) /\ KeywordLimits
    \/ Second(Keywords) /\ KeywordLimits
    \/ Confirm({"carol"}) /\ KeywordLimits

SpecKeyword == Unconfigured /\ [][NextKeyword]_vars

(* SpecPublish: one submission from its admission to its acceptance, on    *)
(* every day of two weeks and with several publish times.                  *)

\* config["workflow"]["publish_time"]: "09:30", "00:00", "23:59", "9:05"
PublishTimes ==
    {DefaultPublishTime, <<"0", "0", ":", "0", "0">>, <<"2", "3", ":", "5", "9">>,
     <<"9", ":", "0", "5">>}

StartPublish == Start({0}, PublishTimes, 0..LastDate)

PublishLimits == Limits(FewRows, FewFollowups, FewRejections) /\ Delivered

NextPublish ==
    \/ Admit(GmailIds, AliceOnly) /\ PublishLimits
    \/ Accept /\ PublishLimits
    \/ DoneButton /\ PublishLimits
    \/ DoneCommand(OneKeyword) /\ PublishLimits

SpecPublish == StartPublish /\ [][NextPublish]_vars

(* SpecAsync: one submission, the handlers and the follow-up job running   *)
(* from await to await.                                                    *)

\* main() builds the Application without concurrent_updates and adds every
\* handler with block left at its default: the next update is dispatched
\* when the handler of the one before has returned
Dispatchable == handler.awaits = ""

AcceptAsync ==
    /\ Dispatchable
    /\ \E b \in buttons :
          /\ b.action = "accept"
          /\ accept_until_email(b.submission_id, b.username,
                 Update("cb_accept", b.submission_id, b.username, b.username, <<>>))
    /\ args' = <<>>
    /\ UNCHANGED <<config, mail, job>>

EmailReturns ==
    /\ \E error \in EmailErrors : accept_after_email(error)
    /\ UNCHANGED <<config, mail, args, job>>

DeclineAsync ==
    /\ Dispatchable
    /\ \E b \in buttons :
          /\ b.action = "decline"
          /\ decline_until_oracle(b.submission_id, b.username,
                 Update("cb_decline", b.submission_id, b.username, b.username, <<>>))
    /\ args' = <<>>
    /\ UNCHANGED <<config, mail, job>>

OracleReturns(results) ==
    /\ \E result \in results : decline_after_oracle(result)
    /\ UNCHANGED <<config, mail, args, job>>

DoneButtonAsync ==
    /\ Dispatchable
    /\ \E b \in buttons :
          /\ cb_done(b, b.username)
          /\ handler' = Update("cb_done", b.submission_id, b.username, b.username, <<>>)
    /\ args' = <<>>
    /\ UNCHANGED <<config, mail, job>>

DoneCommandAsync(users, keywords) ==
    /\ Dispatchable
    /\ \E user \in users, text \in keywords :
          /\ cmd_done(user, text)
          /\ handler' = Update("cmd_done", 0, "", user, text)
          /\ args' = text
    /\ UNCHANGED <<config, mail, job>>

ProposeAsync(users, keywords, reasons) ==
    /\ Dispatchable
    /\ \E user \in users, keyword \in keywords, reason \in reasons :
          /\ cmd_reject(user, keyword, reason)
          /\ handler' = Update("cmd_reject", 0, "", user, keyword)
          /\ args' = keyword
    /\ UNCHANGED <<config, mail, job>>

SecondAsync(users, keywords) ==
    /\ Dispatchable
    /\ \E user \in users, text \in keywords :
          /\ cmd_second(user, text)
          /\ handler' = Update("cmd_second", 0, "", user, text)
          /\ args' = text
    /\ UNCHANGED <<config, mail, job>>

ConfirmAsync(callers) ==
    /\ Dispatchable
    /\ \E b \in buttons, user \in callers :
          /\ cb_confirm_rejection(b, user)
          /\ handler' = Update("cb_confirm_rejection", b.submission_id, "", user, <<>>)
    /\ args' = <<>>
    /\ UNCHANGED <<config, mail, job>>

OverrideAsync(ids, names, longest, callers) ==
    /\ Dispatchable
    /\ \E user \in callers, sub_id \in ids,
          new_reviewers \in OverrideLists(names, longest) :
          /\ cmd_override(user, sub_id, new_reviewers)
          /\ handler' = Update("cmd_override", sub_id, "", user, new_reviewers)
    /\ args' = <<>>
    /\ UNCHANGED <<config, mail, job>>

FollowupsStart ==
    /\ followups_until_post
    /\ UNCHANGED <<config, mail, args, handler>>

PostReturns ==
    /\ \E failing \in BOOLEAN : followups_after_post(failing)
    /\ UNCHANGED <<config, mail, args, handler>>

AsyncLimits == Limits(MaxRows, MaxFollowups, FewRejections)

NextAsync ==
    \/ Admit(GmailIds, AliceOnly) /\ AsyncLimits
    \/ AcceptAsync /\ AsyncLimits
    \/ EmailReturns /\ AsyncLimits
    \/ DeclineAsync /\ AsyncLimits
    \/ OracleReturns(BobOnly \cup Failed) /\ AsyncLimits
    \/ DoneButtonAsync /\ AsyncLimits
    \/ DoneCommandAsync({"alice"}, OneKeyword) /\ AsyncLimits
    \/ ProposeAsync({"carol"}, OneKeyword, {"spam"}) /\ AsyncLimits
    \/ SecondAsync({"alice", "bob"}, OneKeyword) /\ AsyncLimits
    \/ ConfirmAsync({"carol"}) /\ AsyncLimits
    \/ OverrideAsync(GmailIds, {"bob"}, MaxOverride, {"carol"}) /\ AsyncLimits
    \/ FollowupsStart /\ AsyncLimits
    \/ PostReturns /\ AsyncLimits
    \/ Tick

SpecAsync == Unconfigured /\ [][NextAsync]_vars

(* SpecPress: the buttons of one submission pressed by the reviewers they  *)
(* name, by other members, by a member whose username is spelled in        *)
(* another case, and by a member without a username.                       *)

Pressers == Users \cup {"Alice", ""}

\* the oracle names alice in either case, alone or with bob
PressResults ==
    [ok : {TRUE}, reviewer1 : {"alice", "Alice"}, reviewer2 : {"", " bob"}]

AcceptBy(users) ==
    /\ \E b \in buttons, user \in users :
          /\ cb_accept(b, user)
          /\ handler' = Update("cb_accept", b.submission_id, b.username, user, <<>>)
    /\ args' = <<>>
    /\ UNCHANGED <<config, mail, job>>

DeclineBy(users, results) ==
    /\ \E b \in buttons, user \in users :
          /\ cb_decline(b, user, results)
          /\ handler' = Update("cb_decline", b.submission_id, b.username, user, <<>>)
    /\ args' = <<>>
    /\ UNCHANGED <<config, mail, job>>

DoneButtonBy(users) ==
    /\ \E b \in buttons, user \in users :
          /\ cb_done(b, user)
          /\ handler' = Update("cb_done", b.submission_id, b.username, user, <<>>)
    /\ args' = <<>>
    /\ UNCHANGED <<config, mail, job>>

PressLimits == Limits(MoreRows, FewFollowups, FewRejections) /\ Delivered

NextPress ==
    \/ Admit(GmailIds, PressResults) /\ PressLimits
    \/ AcceptBy(Pressers) /\ PressLimits
    \/ DeclineBy(Pressers, AliceOnly \cup BobOnly \cup Failed) /\ PressLimits
    \/ DoneButtonBy(Pressers) /\ PressLimits

SpecPress == Unconfigured /\ [][NextPress]_vars

(* SpecLive: one submission whose reviewers answer their prompts: no       *)
(* decline, no override, no rejection; the poll job runs again and again,  *)
(* and a reviewer who can accept or mark done does so in the end; the      *)
(* clock stands still.                                                     *)

Reviewers == {"alice", "bob"}

\* the oracle call returns, naming alice, bob, both or nobody
LiveResults == [ok : {TRUE}, reviewer1 : {"", "alice"}, reviewer2 : {"", " bob"}]

LiveLimits == Limits(MaxRows, MaxFollowups, FewRejections)

AdmitLive == Admit(GmailIds, LiveResults) /\ LiveLimits

\* reviewer u presses an accept button
AcceptLive(u) == AcceptBy({u}) /\ LiveLimits

\* reviewer u presses a done button or sends /done
FinishLive(u) ==
    (DoneButtonBy({u}) \/ DoneCommandAsync({u}, OneKeyword)) /\ LiveLimits

\* the press or command was recorded
Accepts(u) == AcceptLive(u) /\ last'.outcome \in {"confirmed", "under_review"}
Finishes(u) == FinishLive(u) /\ last'.outcome \in {"done", "accepted"}

NextLive ==
    \/ AdmitLive
    \/ \E u \in Reviewers : AcceptLive(u)
    \/ \E u \in Reviewers : FinishLive(u)

\* the interval trigger of the poll job, and the reviewers' answers
Fairness ==
    /\ WF_vars(AdmitLive)
    /\ \A u \in Reviewers : WF_vars(Accepts(u)) /\ WF_vars(Finishes(u))

SpecLive == Unconfigured /\ [][NextLive]_vars /\ Fairness

(* SpecPoll: messages reaching the mailbox and the poll job listing them,  *)
(* with listings that fail, over two days.                                 *)

Deliver(messages) ==
    /\ \E g \in messages : deliver(g)
    /\ args' = <<>>
    /\ UNCHANGED <<config, handler, job>>

PollGmail(outcomes) ==
    /\ \E outcome \in outcomes : poll_gmail_list(outcome)
    /\ args' = <<>>
    /\ UNCHANGED <<config, handler, job>>

AdmitPolled(results) ==
    /\ poll_gmail_next(results)
    /\ args' = <<>>
    /\ UNCHANGED <<config, handler, job>>

PollLimits == Limits(MaxRows, FewFollowups, FewRejections)

NextPoll ==
    \/ Deliver(1..MoreSubs)
    \/ PollGmail(ListOutcomes)
    \/ AdmitPolled(AliceOnly \cup Failed) /\ PollLimits
    \/ Tick

SpecPoll == Unconfigured /\ [][NextPoll]_vars

----------------------------------------------------------------------------
(* Properties *)

StatusOf(sub_id) == submissions[sub_id].status

\* the rows of a submission that are not declined
NonDeclined(rows, sub_id) ==
    SelectSeq(rows, LAMBDA a : a.submission_id = sub_id /\ a.status # "declined")

RowsOf(rows, sub_id) == SelectSeq(rows, LAMBDA a : a.submission_id = sub_id)

RowsElsewhere(rows, sub_id) == SelectSeq(rows, LAMBDA a : a.submission_id # sub_id)

Statuses(rows) == {rows[i].status : i \in DOMAIN rows}

Unsent(sub_id) ==
    {i \in DOMAIN followups : followups[i].submission_id = sub_id /\ ~followups[i].sent}

Backward(from, to) ==
    \/ from = "under_review" /\ to = "assigning"
    \/ from \in {"accepted", "rejected"} /\ to \in {"assigning", "under_review"}

\* C1: no step other than ApplyOverride moves a submission's status backward
\* (under_review to assigning; accepted or rejected to assigning or under_review).
C1_StatusNeverBackward ==
    [][last'.op # "Override" =>
          \A s \in DOMAIN submissions :
              ~Backward(submissions[s].status, submissions'[s].status)]_vars

\* C2: an Admit of a message id that is already stored creates no submission,
\* no assignment and no history entry and calls no oracle, so each message id
\* is stored at most once.
C2_AdmitIdempotent ==
    [][(/\ last'.op = "Admit"
        /\ \E i \in DOMAIN submissions :
              submissions[i].gmail_message_id =
                  submissions'[last'.sub].gmail_message_id)
       => /\ submissions' = submissions
          /\ assignments' = assignments
          /\ assignment_history' = assignment_history
          /\ last'.oracle = 0]_vars

C2_Witness ==
    /\ last.op = "Admit"
    /\ last.outcome = "duplicate"
    /\ Cardinality({i \in DOMAIN submissions :
           submissions[i].gmail_message_id =
               submissions[last.sub].gmail_message_id}) = 1

\* the most recent proposal of a submission (0: none)
LatestRejection(sub_id) ==
    LET mine == {i \in DOMAIN rejections : rejections[i].submission_id = sub_id}
    IN  IF mine = {} THEN 0 ELSE Max(mine)

AtThreshold(rejection_id) ==
    /\ rejection_id # 0
    /\ Cardinality(SeqToSet(rejections[rejection_id].seconds)) >= 2
    /\ rejections[rejection_id].proposed_by
           \notin SeqToSet(rejections[rejection_id].seconds)

\* C3: a submission becomes rejected only while its most recent rejection
\* proposal has at least 2 distinct seconders, none of them the proposer.
C3_RejectedOnlyAtThreshold ==
    [][\A s \in DOMAIN submissions :
          (submissions[s].status # "rejected" /\ submissions'[s].status = "rejected")
          => AtThreshold(LatestRejection(s))]_vars

\* C4: every submission has at most one unsent followup.
C4_AtMostOneUnsentFollowup ==
    \A s \in DOMAIN submissions : Cardinality(Unsent(s)) <= 1

\* C5: an Accept that takes effect moves the submission to under_review
\* exactly when afterwards its non-declined rows are non-empty and none is
\* pending, creating exactly one followup at now + the interval; otherwise it
\* leaves the status and the followups as they were.
C5_AcceptAdvances ==
    [][(last'.op = "Accept" /\ last'.outcome \in {"confirmed", "under_review"})
       => LET s == last'.sub
              active == NonDeclined(assignments', s)
          IN  IF active # <<>> /\ "pending" \notin Statuses(active)
              THEN /\ submissions'[s].status = "under_review"
                   /\ followups' = Append(followups,
                          [submission_id |-> s,
                           scheduled_at |-> now + FollowupIntervalDays,
                           sent |-> FALSE])
              ELSE /\ submissions'[s].status = submissions[s].status
                   /\ followups' = followups]_vars

\* two reviewers: the second Accept has just moved the submission on
C5_Witness ==
    /\ last.op = "Accept"
    /\ last.outcome = "under_review"
    /\ Len(NonDeclined(assignments, last.sub)) = 2
    /\ StatusOf(last.sub) = "under_review"
    /\ Cardinality(Unsent(last.sub)) = 1

\* C6: when a submission's only non-declined row is one pending reviewer,
\* that reviewer's Accept moves it to under_review; when, under review, its
\* only non-declined row is that confirmed reviewer, that reviewer's MarkDone
\* moves it to accepted.
C6_SingleReviewerAdvances ==
    [][LET s == last'.sub
           before == NonDeclined(assignments, s)
           alone == /\ Len(before) = 1
                    /\ before[1].reviewer_tg_username = last'.name
       IN  /\ (/\ last'.op = "Accept"
               /\ last'.outcome \in {"confirmed", "under_review"}
               /\ alone /\ before[1].status = "pending")
              => submissions'[s].status = "under_review"
           /\ (/\ last'.op = "Done"
               /\ last'.outcome \in {"done", "accepted"}
               /\ alone /\ before[1].status = "confirmed"
               /\ submissions[s].status = "under_review")
              => submissions'[s].status = "accepted"]_vars

C6_Witness ==
    /\ last.op = "Done"
    /\ last.outcome = "accepted"
    /\ Len(NonDeclined(assignments, last.sub)) = 1
    /\ Len(RowsOf(assignments, last.sub)) = 1
    /\ StatusOf(last.sub) = "accepted"

\* C7: a submission enters accepted only from under_review.
C7_AcceptedOnlyFromUnderReview ==
    [][\A s \in DOMAIN submissions :
          (submissions[s].status # "accepted" /\ submissions'[s].status = "accepted")
          => submissions[s].status = "under_review"]_vars

\* C8: a declined assignment row stays stored, with status declined.
C8_DeclinedStaysDeclined ==
    [][\A i \in DOMAIN assignments :
          assignments[i].status = "declined"
          => \E j \in DOMAIN assignments' :
                 /\ assignments'[j].id = assignments[i].id
                 /\ assignments'[j].status = "declined"]_vars

\* C9: a Decline whose replacement lookup succeeds adds exactly one row to the
\* submission; the row is pending and names a reviewer who was not on the
\* roster (ignoring case); the decliner's row is declined; the submission
\* status and the other submissions' rows are unchanged.
C9_DeclineReplaces ==
    [][(last'.op = "Decline" /\ last'.outcome = "replaced")
       => LET s == last'.sub
              before == RowsOf(assignments, s)
              after == RowsOf(assignments', s)
              new == after[Len(after)]
              mine == {i \in DOMAIN before :
                          before[i].reviewer_tg_username = last'.name}
          IN  /\ Len(after) = Len(before) + 1
              /\ \A i \in DOMAIN before : after[i].id = before[i].id
              /\ new.status = "pending"
              /\ Lower(new.reviewer_tg_username)
                     \notin {Lower(before[i].reviewer_tg_username) : i \in DOMAIN before}
              /\ mine # {}
              /\ after[Max(mine)].status = "declined"
              /\ submissions' = submissions
              /\ RowsElsewhere(assignments', s) = RowsElsewhere(assignments, s)]_vars

C9_Witness ==
    /\ last.op = "Decline"
    /\ last.outcome = "replaced"
    /\ Len(RowsOf(assignments, last.sub)) >= 2
    /\ "declined" \in Statuses(RowsOf(assignments, last.sub))

\* the oracle's answer is no usable replacement for a roster
BadAnswer(answer, roster) ==
    \/ ~answer.ok
    \/ Strip(answer.reviewer1) = ""
    \/ Lower(Strip(answer.reviewer1))
           \in {Lower(roster[i].reviewer_tg_username) : i \in DOMAIN roster}

\* C10: when a reviewer declines and the oracle call fails, returns an empty
\* name or returns a name that equals, ignoring case, a reviewer on the
\* roster, no row is created, the declining row is declined, the status is
\* unchanged, the oracle was called once and the hint lists the confirmed
\* reviewers.
C10_DeclineFallsBack ==
    [][(/\ last'.op = "Decline"
        /\ last'.outcome \in {"replaced", "manual"}
        /\ BadAnswer(last'.answer, RowsOf(assignments, last'.sub)))
       => LET s == last'.sub
              before == RowsOf(assignments, s)
              after == RowsOf(assignments', s)
              mine == {i \in DOMAIN before :
                          before[i].reviewer_tg_username = last'.name}
              confirmed == SelectSeq(after, LAMBDA a : a.status = "confirmed")
          IN  /\ Len(assignments') = Len(assignments)
              /\ assignment_history' = assignment_history
              /\ [i \in DOMAIN after |-> after[i].id]
                     = [i \in DOMAIN before |-> before[i].id]
              /\ mine # {}
              /\ after[Max(mine)].status = "declined"
              /\ submissions' = submissions
              /\ last'.oracle = 1
              /\ last'.outcome = "manual"
              /\ last'.text = [i \in DOMAIN confirmed |->
                                  confirmed[i].reviewer_tg_username]]_vars

\* the oracle named someone who is on the roster already
C10_Witness ==
    /\ last.op = "Decline"
    /\ last.outcome = "manual"
    /\ last.answer.ok
    /\ Strip(last.answer.reviewer1) # ""
    /\ "declined" \in Statuses(RowsOf(assignments, last.sub))
    /\ Len(RowsOf(assignments, last.sub)) = 1

\* C11: an Accept or a Decline for a pair that has no assignment row, or whose
\* row is not pending, changes no stored state, posts no button and calls no
\* oracle; one that takes effect leaves the pair's row not pending, so a later
\* Accept or Decline of the same row does nothing.
C11_AnswerOnlyWhilePending ==
    [][last'.op \in {"Accept", "Decline"}
       => IF get_assignment(assignments, last'.sub, last'.name).status = "pending"
          THEN get_assignment(assignments', last'.sub, last'.name).status
                   \in {"confirmed", "declined"}
          ELSE /\ StoredState' = StoredState
               /\ buttons' = buttons
               /\ last'.oracle = 0]_vars

\* a Decline arrives after the same reviewer's Accept was recorded
C11_Witness ==
    /\ last.op = "Decline"
    /\ last.outcome = "already"
    /\ Statuses(assignments) = {"confirmed"}
    /\ followups # <<>>

\* C12: a MarkDone changes no stored state, posts nothing and mails nothing
\* unless the submission exists with status assigning or under_review and the
\* identity has an assignment row on it that is not done yet.
C12_DoneOnlyWhenAllowed ==
    [][last'.op = "Done"
       => \/ /\ last'.sub \in DOMAIN submissions
             /\ submissions[last'.sub].status \in {"assigning", "under_review"}
             /\ get_assignment(assignments, last'.sub, last'.name).status
                    \notin {"none", "done"}
          \/ /\ StoredState' = StoredState
             /\ buttons' = buttons
             /\ last'.email = ""]_vars

\* a reviewer with a confirmed row marks done after the submission was rejected
C12_Witness ==
    /\ last.op = "Done"
    /\ last.outcome = "not_under_review"
    /\ \E s \in DOMAIN submissions : submissions[s].status = "rejected"
    /\ "confirmed" \in Statuses(assignments)

\* the rows of a submission that are confirmed or done
ConfirmedOrDone(rows, sub_id) ==
    SelectSeq(rows, LAMBDA a : /\ a.submission_id = sub_id
                               /\ a.status \in {"confirmed", "done"})

\* C13: a MarkDone that takes effect moves the submission to accepted exactly
\* when afterwards it has a confirmed-or-done row and every such row is done,
\* and otherwise leaves the status as it was; no step moves a submission to
\* accepted while one of its rows is confirmed.
C13_AcceptedWhenAllDone ==
    [][/\ (last'.op = "Done" /\ assignments' # assignments)
          => LET s == last'.sub
                 active == ConfirmedOrDone(assignments', s)
             IN  IF active # <<>> /\ Statuses(active) = {"done"}
                 THEN submissions'[s].status = "accepted"
                 ELSE submissions'[s].status = submissions[s].status
       /\ \A s \in DOMAIN submissions :
             (submissions[s].status # "accepted" /\ submissions'[s].status = "accepted")
             => "confirmed" \notin Statuses(RowsOf(assignments', s))]_vars

\* the second of two confirmed reviewers has just finished
C13_Witness ==
    /\ last.op = "Done"
    /\ last.sub \in DOMAIN submissions
    /\ StatusOf(last.sub) = "accepted"
    /\ Len(ConfirmedOrDone(assignments, last.sub)) = 2
    /\ Cardinality(SeqToSet(Names(RowsOf(assignments, last.sub)))) = 2
    /\ followups # <<>>

\* C14: a Second changes no stored state and posts no button unless the
\* seconder is not the proposer of the active proposal it is applied to; with
\* no proposal on the submission, or with the proposer seconding, every
\* proposal's seconders stay as they were.
C14_SecondIrreflexive ==
    [][last'.op = "Second"
       => /\ UNCHANGED <<submissions, assignments, assignment_history, followups>>
          /\ \/ rejections' = rejections /\ buttons' = buttons
             \/ \E r \in get_active_rejection(rejections, last'.sub) :
                   /\ rejections[r].proposed_by # last'.name
                   /\ rejections' = [rejections EXCEPT ![r] = rejections'[r]]]_vars

\* the proposer seconds a proposal that already has a seconder
C14_Witness ==
    /\ last.op = "Second"
    /\ last.outcome = "self_second"
    /\ \E r \in DOMAIN rejections : Len(rejections[r].seconds) = 1

\* the identities recorded as seconders of a proposal
Seconders(rs, rejection_id) == SeqToSet(rs[rejection_id].seconds)

\* C15: a proposal's seconder list never names an identity twice and never
\* names the proposer, so its length is the number of distinct seconders; only
\* a Second changes it, by adding the seconder if absent; a Second that is
\* applied posts the list of the proposal it was applied to.
C15_SecondersCountedOnce ==
    [][/\ \A r \in DOMAIN rejections' :
             /\ Len(rejections'[r].seconds) = Cardinality(Seconders(rejections', r))
             /\ rejections'[r].proposed_by \notin Seconders(rejections', r)
       /\ \A r \in DOMAIN rejections :
             \/ Seconders(rejections', r) = Seconders(rejections, r)
             \/ /\ last'.op = "Second"
                /\ Seconders(rejections', r) = Seconders(rejections, r) \cup {last'.name}
       /\ (last'.op = "Second" /\ last'.sub \in DOMAIN submissions)
          => \E r \in get_active_rejection(rejections, last'.sub) :
                /\ last'.name \in Seconders(rejections', r)
                /\ last'.text = rejections'[r].seconds]_vars

\* two different identities have seconded: the count is 2
C15_Witness ==
    /\ last.op = "Second"
    /\ last.outcome = "button"
    /\ Len(last.text) = 2
    /\ \E r \in DOMAIN rejections :
          rejections[r].seconds = last.text /\ Cardinality(Seconders(rejections, r)) = 2

\* C16: with an operator id configured, a Confirm from any other caller
\* leaves the submission's status and every table unchanged, posts nothing
\* and mails no rejection.
C16_ConfirmOnlyByOperator ==
    [][(/\ last'.op = "Confirm"
        /\ operator_user_id # 0
        /\ UserId(last'.name) # operator_user_id)
       => /\ StoredState' = StoredState
          /\ buttons' = buttons
          /\ last'.email = ""]_vars

\* bob presses the confirm button of a deployment whose operator is carol
C16_Witness ==
    /\ last.op = "Confirm"
    /\ last.name = "bob"
    /\ operator_user_id = UserId("carol")
    /\ Button("confirm_rejection", last.sub, "") \in buttons
    /\ StatusOf(last.sub) # "rejected"

\* C17: with an operator id configured, an override command from any other
\* caller changes no table and posts nothing; with none configured, an
\* override of a stored submission sets it to assigning and inserts its rows,
\* and a Confirm rejects the submission, whoever the caller is.
C17_OperatorGate ==
    [][/\ (/\ last'.op = "Override"
           /\ last'.name \in Users
           /\ operator_user_id # 0
           /\ UserId(last'.name) # operator_user_id)
          => /\ StoredState' = StoredState
             /\ buttons' = buttons
       /\ (/\ last'.op = "Override"
           /\ operator_user_id = 0
           /\ last'.sub \in DOMAIN submissions)
          => /\ submissions'[last'.sub].status = "assigning"
             /\ Len(assignment_history') = Len(assignment_history) + Len(last'.text)
             /\ last'.text # <<>>
       /\ (last'.op = "Confirm" /\ operator_user_id = 0)
          => /\ submissions'[last'.sub].status = "rejected"
             /\ last'.email = "rejection"]_vars

\* with no operator configured, bob's override naming two reviewers is applied
C17_Witness ==
    /\ last.op = "Override"
    /\ last.name = "bob"
    /\ last.outcome = "applied"
    /\ operator_user_id = 0
    /\ Len(last.text) = 2

\* the caller of the last command passed the operator check
Allowed(user) == user \in Users /\ ~NotOperator(operator_user_id, UserId(user))

\* C18: an override of a stored submission leaves it with exactly its former
\* confirmed and done rows followed by one new pending row per listed
\* reviewer, in the order listed, and with status assigning, whatever the
\* status was; the other submissions' rows are untouched; an override naming
\* an unknown submission changes nothing.
C18_OverrideReplacesOpenRows ==
    [][last'.op = "Override"
       => IF last'.sub \in DOMAIN submissions /\ Allowed(last'.name)
          THEN LET s == last'.sub
                   kept == ConfirmedOrDone(assignments, s)
                   after == RowsOf(assignments', s)
                   listed == last'.text
               IN  /\ Len(after) = Len(kept) + Len(listed)
                   /\ SubSeq(after, 1, Len(kept)) = kept
                   /\ \A i \in DOMAIN listed :
                         LET new == after[Len(kept) + i]
                         IN  /\ new.reviewer_tg_username = listed[i]
                             /\ new.status = "pending"
                             /\ new.id = Len(assignment_history) + i
                   /\ submissions'[s].status = "assigning"
                   /\ RowsElsewhere(assignments', s) = RowsElsewhere(assignments, s)
          ELSE /\ StoredState' = StoredState
               /\ buttons' = buttons]_vars

\* a confirmed row is kept and two listed reviewers are added to it
C18_Witness ==
    /\ last.op = "Override"
    /\ last.outcome = "applied"
    /\ Len(last.text) = 2
    /\ Len(ConfirmedOrDone(assignments, last.sub)) = 1
    /\ Len(RowsOf(assignments, last.sub)) = 3

\* the (reviewer, status) pairs of a submission's rows
ReviewerStatus(rows, sub_id) ==
    [i \in DOMAIN RowsOf(rows, sub_id) |->
        <<RowsOf(rows, sub_id)[i].reviewer_tg_username, RowsOf(rows, sub_id)[i].status>>]

\* the record of an override that was applied
AppliedOverride(l) ==
    l.op = "Override" /\ l.sub \in DOMAIN submissions /\ Allowed(l.name)

\* C19: when an applied override is followed at once by an applied override
\* of the same submission with the same reviewer list, the second leaves the
\* submission's status and the (reviewer, status) pairs of its rows as the
\* first left them.
C19_OverrideRepeatable ==
    [][(/\ AppliedOverride(last)
        /\ AppliedOverride(last')
        /\ last'.sub = last.sub
        /\ last'.text = last.text)
       => /\ submissions'[last.sub].status = submissions[last.sub].status
          /\ ReviewerStatus(assignments', last.sub) = ReviewerStatus(assignments, last.sub)
          /\ Len(assignment_history') = Len(assignment_history) + Len(last.text)]_vars

\* bob was listed twice running beside a confirmed reviewer: the first of his
\* two rows is gone, the second is pending
C19_Witness ==
    /\ last.op = "Override"
    /\ last.outcome = "applied"
    /\ last.text = <<"bob">>
    /\ Len(assignment_history) = 3
    /\ assignment_history[2].reviewer_tg_username = "bob"
    /\ assignment_history[3].reviewer_tg_username = "bob"
    /\ ReviewerStatus(assignments, last.sub) = << <<"alice", "confirmed">>, <<"bob", "pending">> >>

\* a submission that was stored but got no reviewers
InLimbo(subs, rows, sub_id) ==
    subs[sub_id].status = "pending_assignment" /\ RowsOf(rows, sub_id) = <<>>

\* C20: an Admit whose oracle call fails leaves the new submission with
\* status pending_assignment and no rows, after one oracle call and an
\* operator notice carrying the override command; from then on every step
\* other than an override or a confirmed rejection leaves the submission and
\* its (empty) rows as they are and calls no oracle for its message.
C20_FailedAdmitWaitsForOperator ==
    [][/\ (last'.op = "Admit" /\ last'.oracle > 0 /\ ~last'.answer.ok)
          => /\ last'.sub \in DOMAIN submissions' \ DOMAIN submissions
             /\ InLimbo(submissions', assignments', last'.sub)
             /\ last'.oracle = 1
             /\ last'.text = <<OverrideCommand>>
       /\ \A s \in DOMAIN submissions :
             (InLimbo(submissions, assignments, s) /\ last'.op \notin {"Override", "Confirm"})
             => /\ submissions'[s] = submissions[s]
                /\ InLimbo(submissions', assignments', s)
                /\ \/ last'.oracle = 0
                   \/ submissions'[last'.sub].gmail_message_id
                          # submissions[s].gmail_message_id]_vars

\* a /done on the submission that waits for the operator was turned away
C20_Witness ==
    /\ last.op = "Done"
    /\ last.outcome = "not_under_review"
    /\ \E s \in DOMAIN submissions : InLimbo(submissions, assignments, s)
    /\ rejections # <<>>

\* the done buttons _transition_to_under_review posts after its email
DoneButtons(rows, sub_id) ==
    {Button("done", sub_id, r) : r \in SeqToSet(Names(get_confirmed_reviewers(rows, sub_id)))}

\* C21: when the send of the under-review, acceptance or rejection email
\* raises, the handler still ends with the new status stored: under_review
\* with the first followup scheduled and the done buttons posted, accepted
\* with the publish date, or rejected; the status is never put back.
C21_FailedEmailKeepsTransition ==
    [][last'.email_error =>
        /\ last'.email \in {"under_review", "acceptance", "rejection"}
        /\ last'.email = "under_review" =>
              /\ last'.op = "Accept" /\ last'.outcome = "under_review"
              /\ submissions'[last'.sub].status = "under_review"
              /\ followups' = Append(followups,
                     [submission_id |-> last'.sub,
                      scheduled_at |-> now + FollowupIntervalDays, sent |-> FALSE])
              /\ DoneButtons(assignments', last'.sub) \subseteq buttons'
        /\ last'.email = "acceptance" =>
              /\ last'.op = "Done" /\ last'.outcome = "accepted"
              /\ submissions'[last'.sub].status = "accepted"
              /\ submissions'[last'.sub].publish_date = last'.publish.day
              /\ last'.publish.day > now
        /\ last'.email = "rejection" =>
              /\ last'.op = "Confirm" /\ last'.outcome = "rejected"
              /\ submissions'[last'.sub].status = "rejected"]_vars

\* the acceptance email failed and the submission is accepted with its
\* publish date, after an under-review email went out for it
C21_Witness ==
    /\ last.op = "Done"
    /\ last.email = "acceptance"
    /\ last.email_error
    /\ submissions[last.sub].status = "accepted"
    /\ submissions[last.sub].publish_date = last.publish.day
    /\ \E i \in DOMAIN followups : followups[i].submission_id = last.sub

\* the proposals of a submission, by id
ProposalsOf(rs, sub_id) == {i \in DOMAIN rs : rs[i].submission_id = sub_id}

\* C22: once a submission has a second proposal, the older proposals' seconder
\* lists no longer change, a new proposal starts without seconders, and a
\* confirmed rejection mails the reason of the proposal made last.
C22_SecondGoesToNewest ==
    [][\A s \in DOMAIN submissions :
        LET mine == ProposalsOf(rejections, s)
        IN  /\ \A i \in mine :
                  i # Max(mine) => rejections'[i].seconds = rejections[i].seconds
            /\ \A i \in ProposalsOf(rejections', s) \ mine :
                  rejections'[i].seconds = <<>>
            /\ (last'.op = "Confirm" /\ last'.outcome = "rejected"
                  /\ last'.sub = s /\ mine # {}) =>
                  last'.text = <<rejections[Max(mine)].reason>>]_vars

\* C23: a proposal's chat message carries the confirm button exactly when the
\* proposal has at least two seconders, and it gets the button in the Second
\* step that takes the count from 1 to 2.
C23_ButtonAtTwoSeconds ==
    [][/\ \A i \in DOMAIN rejections' :
              rejections'[i].keyboard <=> Len(rejections'[i].seconds) >= 2
       /\ \A i \in DOMAIN rejections :
              (~rejections[i].keyboard /\ rejections'[i].keyboard) =>
                  /\ last'.op = "Second"
                  /\ Len(rejections[i].seconds) = 1
                  /\ Len(rejections'[i].seconds) = 2]_vars

\* carol's second has put the button on a proposal that bob had seconded
C23_Witness ==
    /\ last.op = "Second"
    /\ last.outcome = "button"
    /\ \E i \in DOMAIN rejections :
          /\ rejections[i].keyboard
          /\ rejections[i].seconds = <<"bob", "carol">>
    /\ \E i \in DOMAIN rejections :
          ~rejections[i].keyboard /\ Len(rejections[i].seconds) = 1

\* the keyword a command looks for in the titles: /done drops surrounding
\* quotes, /reject takes its first word as typed
KeywordOf(op, text) ==
    IF op = "Done" THEN strip(strip(strip(text, Whitespace), {"\""}), {"'"})
    ELSE IF op = "Second" THEN strip(text, Whitespace)
    ELSE text

\* word occurs in text, whatever the case of the letters
Contains(text, word) ==
    \E k \in 0..(Len(text) - Len(word)) :
        \A j \in 1..Len(word) : Lower(text[k + j]) = Lower(word[j])

Terminal == {"accepted", "rejected"}

\* the submissions that are not accepted or rejected and carry the word in
\* their title
OpenWith(subs, word) ==
    {i \in DOMAIN subs : subs[i].status \notin Terminal /\ Contains(subs[i].title, word)}

\* C27: a done, reject or second command whose keyword is in the title of no
\* submission that is not accepted or rejected, or of more than one, changes
\* no table and posts no button; the submission a command is applied to is
\* never accepted or rejected.
C27_UnresolvedKeywordChangesNothing ==
    [][last'.op \in {"Done", "Propose", "Second"} =>
          /\ Cardinality(OpenWith(submissions, KeywordOf(last'.op, args'))) # 1
                => /\ StoredState' = StoredState
                   /\ buttons' = buttons
          /\ last'.sub # 0 => submissions[last'.sub].status \notin Terminal]_vars

\* the submissions a step is invoked on: the one the handler was called for,
\* or, for a pass of the follow-up job, those with a followup that is due
Touched ==
    IF last'.op = "Followups"
    THEN {followups[f].submission_id :
              f \in get_pending_followups(followups, submissions, now)}
    ELSE {last'.sub}

\* the records of a submission in the four tables
RecordsOf(sub_id) ==
    <<submissions[sub_id],
      RowsOf(assignments, sub_id),
      SelectSeq(rejections, LAMBDA r : r.submission_id = sub_id),
      SelectSeq(followups, LAMBDA f : f.submission_id = sub_id)>>

\* C28: every step leaves the submission row, the assignment rows, the
\* rejection proposals and the followups of every submission other than the
\* one it is invoked on as they were.
C28_OtherSubmissionsUntouched ==
    [][\A other \in DOMAIN submissions :
          other \notin Touched => RecordsOf(other)' = RecordsOf(other)]_vars

\* a nudge for the first submission has been sent while the second one is
\* under review with its own unsent followup, and a Second has been recorded
\* for one submission while the other one has rows of the same reviewer
C28_Witness ==
    /\ last.op = "Followups" /\ last.outcome = "sent"
    /\ Len(submissions) = 2
    /\ \A s \in {1, 2} : StatusOf(s) = "under_review"
    /\ followups[1].sent /\ ~followups[2].sent
    /\ followups[1].submission_id # followups[2].submission_id
    /\ rejections # <<>>

\* the ids of the assignment rows
RowIds(rows) == {rows[i].id : i \in DOMAIN rows}

\* the assignment rows a step created
Created == SelectSeq(assignments', LAMBDA a : a.id \notin RowIds(assignments))

\* C29: every step leaves the history entries it found as they were and
\* appends exactly one entry for each assignment row it creates, in the order
\* of creation and with the row's submission and reviewer.
C29_HistoryAppendOnly ==
    [][/\ Len(assignment_history') = Len(assignment_history) + Len(Created)
       /\ SubSeq(assignment_history', 1, Len(assignment_history)) = assignment_history
       /\ \A k \in DOMAIN Created :
              assignment_history'[Len(assignment_history) + k] =
                  [submission_id |-> Created[k].submission_id,
                   reviewer_tg_username |-> Created[k].reviewer_tg_username]]_vars

\* an override has deleted a reviewer's row and created another one: the
\* history holds both picks
C29_Witness ==
    /\ last.op = "Override" /\ last.outcome = "applied"
    /\ Len(assignment_history) = 2
    /\ Len(assignments) = 1
    /\ assignment_history[1].reviewer_tg_username
           \notin SeqToSet(Names(assignments))

\* the hour and minute a publish time names
ClockOf(publish_time_str) ==
    CASE publish_time_str = <<"0", "9", ":", "3", "0">> -> <<9, 30>>
      [] publish_time_str = <<"0", "0", ":", "0", "0">> -> <<0, 0>>
      [] publish_time_str = <<"2", "3", ":", "5", "9">> -> <<23, 59>>
      [] publish_time_str = <<"9", ":", "0", "5">> -> <<9, 5>>

Saturday == 5
Sunday == 6
Weekend == {Saturday, Sunday}

\* C30: the slot announced by a Done that accepts the submission is the first
\* day after today that is not a Saturday or a Sunday, at the configured hour
\* and minute, and the day is the one stored; on a Friday, Saturday or Sunday
\* it is the following Monday.
C30_PublishSlotNextWorkingDay ==
    (last.op = "Done" /\ last.outcome = "accepted") =>
        LET slot == last.publish
        IN  /\ slot.day > now
            /\ weekday(slot.day) \notin Weekend
            /\ \A d \in (now + 1)..(slot.day - 1) : weekday(d) \in Weekend
            /\ <<slot.hour, slot.minute>> = ClockOf(publish_time)
            /\ submissions[last.sub].publish_date = slot.day
            /\ weekday(now) \in {4, 5, 6} =>
                   /\ weekday(slot.day) = 0
                   /\ slot.day - now <= 3

\* accepted on a Friday with the default publish time: Monday 09:30
C30_Witness ==
    /\ last.op = "Done" /\ last.outcome = "accepted"
    /\ weekday(now) = 4
    /\ publish_time = DefaultPublishTime
    /\ last.publish = [day |-> now + 3, hour |-> 9, minute |-> 30]

\* the followups a step inserted
Scheduled == {f \in DOMAIN followups' : f \notin DOMAIN followups}

\* C25: the follow-up job inserts a followup only for a submission whose
\* status is under_review at that moment: when the submission has become
\* accepted, rejected or assigning while the nudge was being posted, the
\* return of the post schedules nothing for it.
C25_NoFollowupAfterLeavingReview ==
    [][last'.op = "Followups" =>
          \A f \in Scheduled :
              submissions[followups'[f].submission_id].status = "under_review"]_vars

\* a press of a button by the reviewer it names is handled
PressHandled == AcceptAsync \/ DeclineAsync \/ DoneButtonAsync

\* C26: while the oracle call of a Decline or the email send of a confirming
\* Accept is outstanding, a press of any button that has been posted can be
\* handled.
C26_PressHandledDuringAwait ==
    (handler.awaits \in {"oracle", "email"} /\ buttons # {}) => ENABLED PressHandled

\* the callbacks of Accept, Decline, MarkDone and Second
Repeatable == {"cb_accept", "cb_decline", "cb_done", "cmd_done", "cmd_second"}

\* this step dispatches the update that was dispatched last, and took effect,
\* once more: the same button or command from the same user, with nothing
\* but steps of the timer jobs since its handler returned
Redelivery ==
    /\ handler.awaits = ""
    /\ last'.op \in {"Accept", "Decline", "Done", "Second"}
    /\ handler.op \in Repeatable
    /\ handler.wrote
    /\ handler'.op = handler.op
    /\ handler'.sub = handler.sub
    /\ handler'.name = handler.name
    /\ handler'.user = handler.user
    /\ handler'.text = handler.text

\* C24: when an Accept, Decline, MarkDone or Second that wrote to a table is
\* delivered again, with any steps of the mailbox poll, the follow-up job and
\* the clock during and after the handling of the first delivery, the second
\* delivery changes no table, posts no button and returns without an oracle
\* call or an email: the stored state is that of one delivery.
C24_SecondDeliveryChangesNothing ==
    [][Redelivery =>
          /\ StoredState' = StoredState
          /\ buttons' = buttons
          /\ handler'.awaits = ""
          /\ last'.oracle = 0 /\ last'.email = ""]_vars

\* an Accept that put the submission under review has been delivered again
\* after the follow-up job sent a nudge for it, and found its row confirmed
C24_Witness ==
    /\ handler.op = "cb_accept" /\ handler.again
    /\ last.op = "Accept" /\ last.outcome = "already"
    /\ StatusOf(handler.sub) = "under_review"
    /\ \E f \in DOMAIN followups : followups[f].sent
    /\ Len(followups) = 2

\* the rows whose status a step rewrote
Restated ==
    {i \in DOMAIN assignments : assignments'[i].status # assignments[i].status}

\* the position of the row get_assignment returns
NewestRow(rows, sub_id, username) ==
    Max({i \in DOMAIN rows : /\ rows[i].submission_id = sub_id
                             /\ rows[i].reviewer_tg_username = username})

\* C32: an Accept, Decline or MarkDone that takes effect changes the status
\* of exactly one assignment row, the reviewer's most recent row for that
\* submission; every other row, older rows of the same reviewer included,
\* keeps its status.
C32_OnlyNewestRowChanges ==
    [][(last'.op \in {"Accept", "Decline", "Done"} /\ last'.sub # 0)
       => Restated = {NewestRow(assignments, last'.sub, last'.name)}]_vars

\* C33: a Confirm on a submission that is already rejected changes no table
\* and mails no second rejection email.
C33_ConfirmOnceOnly ==
    [][(/\ last'.op = "Confirm"
        /\ last'.sub \in DOMAIN submissions
        /\ submissions[last'.sub].status = "rejected")
       => /\ StoredState' = StoredState
          /\ last'.email = ""]_vars

\* C34: whenever a submission is under_review, none of its assignment rows
\* is pending and at least one of them is confirmed or done.
C34_UnderReviewHasReviewer ==
    \A s \in DOMAIN submissions :
        submissions[s].status = "under_review"
        => /\ "pending" \notin Statuses(RowsOf(assignments, s))
           /\ Statuses(RowsOf(assignments, s)) \cap {"confirmed", "done"} # {}

\* under review with one reviewer who declined and one who accepted
C34_Witness ==
    \E s \in DOMAIN submissions :
        /\ submissions[s].status = "under_review"
        /\ Statuses(RowsOf(assignments, s)) = {"declined", "confirmed"}

\* C35: whenever a submission is under_review, at least one unsent followup
\* exists for it.
C35_UnderReviewHasFollowup ==
    \A s \in DOMAIN submissions :
        submissions[s].status = "under_review" => Unsent(s) # {}

\* a nudge has been sent and the next one is scheduled
C35_Witness ==
    \E s \in DOMAIN submissions :
        /\ submissions[s].status = "under_review"
        /\ \E i \in DOMAIN followups :
               followups[i].submission_id = s /\ followups[i].sent
        /\ Unsent(s) # {}

\* C36: an Admit never leaves the submission in assigning with no assignment
\* row; an oracle answer that names no reviewer is handled like a failed
\* oracle call (status pending_assignment, operator notice).
C36_AdmitAssignsSomebody ==
    [][(last'.op = "Admit" /\ last'.outcome # "duplicate")
       => /\ ~(/\ submissions'[last'.sub].status = "assigning"
               /\ RowsOf(assignments', last'.sub) = <<>>)
          /\ PickedReviewers(last'.answer) = <<>>
                 => last'.outcome = "oracle_failed"]_vars

\* the moves of a row's status the lifecycle has
RowMoves ==
    {<<"pending", "confirmed">>, <<"pending", "declined">>, <<"confirmed", "done">>}

\* C37: the status of an assignment row only moves pending to confirmed,
\* pending to declined, or confirmed to done; in particular MarkDone never
\* turns a pending row into done, and a confirmed or done row never becomes
\* declined or pending.
C37_RowStatusMoves ==
    [][\A i \in DOMAIN assignments, j \in DOMAIN assignments' :
          (/\ assignments[i].id = assignments'[j].id
           /\ assignments[i].status # assignments'[j].status)
          => <<assignments[i].status, assignments'[j].status>> \in RowMoves]_vars

\* the step handled the press of an accept, decline or done button
Pressed == last'.op \in {"Accept", "Decline", "Done"}

\* C38: a press of an accept, decline or done button by a user whose username
\* differs, case ignored, from the one in the button, or who has no username,
\* changes no table and posts no button.
C38_OnlyNamedUserPresses ==
    [][(/\ Pressed
        /\ \/ handler'.user = ""
           \/ Lower(handler'.user) # Lower(handler'.name))
       => /\ StoredState' = StoredState
          /\ buttons' = buttons]_vars

\* the named reviewer, her username spelled in another case, pressed accept
\* and the press was recorded
C38_Witness ==
    /\ handler.op = "cb_accept"
    /\ handler.user = "Alice"
    /\ handler.name = "alice"
    /\ handler.wrote
    /\ last.outcome \in {"confirmed", "under_review"}

\* the submissions for which somebody was prompted
Prompted == {s \in DOMAIN submissions : RowsOf(assignments, s) # <<>>}

\* C39: with the poll job and the reviewers scheduled fairly, the oracle
\* call of the Admit returning, no decline, no override and no rejection,
\* and every prompted reviewer accepting and marking done in the end, an
\* admitted submission reaches accepted.
C39_AdmittedSubmissionIsAccepted ==
    \A s \in GmailIds :
        (s \in DOMAIN submissions)
            ~> (s \in DOMAIN submissions /\ StatusOf(s) = "accepted")

\* The same for the submissions for which the oracle named a reviewer.
PromptedSubmissionIsAccepted ==
    \A s \in GmailIds :
        (s \in Prompted) ~> (s \in DOMAIN submissions /\ StatusOf(s) = "accepted")

\* C31: the persisted mailbox cursor is the time of the last poll whose
\* listing succeeded: a poll whose listing fails leaves the cursor as it was
\* (the next poll asks for the same window again), a poll whose listing
\* succeeds sets it to the time of the poll, and a poll that finds no cursor
\* asks for the last 24 hours.
C31_CursorIsLastSuccessfulPoll ==
    [][last'.op = "Poll"
       => /\ last'.outcome # "listed" => bot_state' = bot_state
          /\ last'.outcome = "listed" => bot_state' = <<time(now)>>
          /\ bot_state = <<>> => poll'.after = time(now) - 24 * 3600]_vars

====
